---------------------------- MODULE Spec2Model ----------------------------
(***************************************************************************)
(* Model of the SD card PHY of litesdcard (litesdcard/phy.py).             *)
(*                                                                         *)
(* Every FSM of the PHY runs in the "sd" (line) clock domain.  One step of *)
(* the model is one rising edge of that clock: the combinational outputs   *)
(* are operators over the current registers, the registers' next values    *)
(* are the primed variables.  The streams that cross from the "sys" domain *)
(* (stream.ClockDomainCrossing) are seen from the sd side: an item that is *)
(* valid stays valid, with a stable payload, until it is taken by ready.   *)
(***************************************************************************)
EXTENDS Integers, Sequences, FiniteSets, TLC

(***************************************************************************)
(* Bounds of the model (not constants of the program).                     *)
(***************************************************************************)
\* number of bytes the controller hands to the Command Writer in one run
MaxBytes == 2

\* timeout.reset of the Command Reader and of the Data Reader, in sd cycles
\* (the program computes int(cmd_timeout*sys_clk_freq): 250000 by default)
TimeoutReload == 22

\* cycles per request in which the result consumer holds source.ready low
\* while an item is presented
MaxStall == 2

\* clocked cycles the card may let pass before it begins its response
MaxCardDelay == 2

\* stimuli (bytes, requests, init triggers) the controller applies to the
\* assembled PHY in one run
MaxOps == 2

\* busy cycles the card may add after its CRC status
MaxBusy == 12

(***************************************************************************)
(* Bit helpers.                                                            *)
(***************************************************************************)
Pow2(n) == 2^n

\* bit i of v (v[i] in migen)
Bit(v, i) == (v \div Pow2(i)) % 2

\* v + 1 in a register of w bits
Inc(v, w) == (v + 1) % Pow2(w)

\* v - 1 in a register of w bits
Dec(v, w) == (v + Pow2(w) - 1) % Pow2(w)

BoolBit(b) == IF b THEN 1 ELSE 0

(***************************************************************************)
(* State.                                                                  *)
(***************************************************************************)
VARIABLES
    \* SDPHYCMDW
    cmdw_fsm,       \* "IDLE" | "WRITE" | "CLK8"
    cmdw_count,     \* count = Signal(8)
    cmdw_sink,      \* sink_cdc.source: [valid, data, last]
    \* observation of the Command Writer (history, not program state)
    cmdw_in,        \* bytes presented to the writer, in order: <<[data, last]>>
    cmdw_line,      \* values driven on cmd.o in the WRITE cycles, in order
    cmdw_acks,      \* number of cycles with sink.valid & sink.ready
    cmdw_trail      \* CLK8 cycles driven since the current byte entered WRITE

cmdwVars == <<cmdw_fsm, cmdw_count, cmdw_sink, cmdw_in, cmdw_line, cmdw_acks, cmdw_trail>>

VARIABLES
    \* SDPHYCMDR
    cmdr_fsm,       \* "IDLE" | "WAIT" | "CMD" | "CLK8" | "TIMEOUT"
    cmdr_count,     \* count = Signal(8)
    cmdr_timeout,   \* timeout = Signal(32, reset=...)
    cmdr_reset,     \* cmdr.reset, the reset input of the embedded SDPHYR
    cmdr_r,         \* registers of the embedded SDPHYR (cmd, width 1)
    cmdr_sink,      \* sink_cdc.source: [valid, length, last]
    cmdr_ob,        \* observation of the current request (history)
    \* SDPHYDATAR
    datar_fsm,      \* "IDLE" | "WAIT" | "DATA" | "CLK40" | "TIMEOUT"
    datar_count,    \* count = Signal(10)
    datar_timeout,  \* timeout = Signal(32, reset=...)
    datar_reset,    \* datar.reset
    datar_r,        \* registers of the embedded SDPHYR (data, width 4)
    datar_sink,     \* sink_cdc.source: [valid, length (block_length), last]
    datar_ob,       \* observation of the current request (history)
    \* the card
    card_cmd,       \* the card on the command line: [q: bits still to drive, wait]
    card_data,      \* the card on the data lines: [q: nibbles still to drive, wait]
    \* the harness
    dut,            \* which module the run exercises
    loop_out        \* loopback: the bytes the reader passed on with status OK

cmdrVars == <<cmdr_fsm, cmdr_count, cmdr_timeout, cmdr_reset, cmdr_r, cmdr_sink, cmdr_ob>>
datarVars == <<datar_fsm, datar_count, datar_timeout, datar_reset, datar_r, datar_sink, datar_ob>>
cardVars == <<card_cmd, card_data>>
benchVars == <<dut, loop_out>>

VARIABLES
    \* SDPHYInit
    init_fsm,       \* "IDLE" | "INITIALIZE"
    init_count,     \* count = Signal(8)
    \* SDPHYDATAW
    dataw_fsm,      \* "IDLE" | "START" | "DATA" | "STOP" | "RESPONSE"
    dataw_count,    \* count = Signal(8)
    dataw_wrstarted,\* wrstarted = Signal()
    dataw_sink,     \* sink_cdc.source: [valid, data, last]
    \* SDPHYCRCR (inside SDPHYDATAW)
    crc_fsm,        \* "IDLE" | "WAIT-CHECK"
    crc_reset,      \* crcr.reset
    crc_r,          \* registers of the embedded SDPHYR (data, width 1, skip start)
    \* the controller
    ops             \* stimuli the controller has applied in the assembled PHY

initVars == <<init_fsm, init_count>>
datawVars == <<dataw_fsm, dataw_count, dataw_wrstarted, dataw_sink, crc_fsm, crc_reset, crc_r>>

VARIABLES
    \* SDPHYClocker (control-clock domain)
    clk_counter,    \* divider = Signal(8), the free-running counter
    clk_storage,    \* self.divider.storage, the divider CSR
    clk_since,      \* control cycles since the last rising edge of cd_sd.clk, -1: none yet
    clk_period,     \* control cycles between the last two rising edges, 0: not yet measured
    \* SDPHYInit, observation of the current sequence (history)
    init_ob,
    \* SDPHYCMDR next to SDPHYCMDW, observation of the last start (history)
    start_ob,
    \* SDPHYDATAW, observation of the current block (history)
    dataw_ob,
    \* SDPHYCMDR / SDPHYDATAR, the line next to the result stream (history)
    fifo_ob

clkVars == <<clk_counter, clk_storage, clk_since, clk_period>>
obVars == <<init_ob, start_ob, dataw_ob>>
auxVars == <<clkVars, obVars, fifo_ob>>

vars == <<cmdwVars, cmdrVars, datarVars, cardVars, benchVars, initVars, datawVars, ops,
          auxVars>>

(***************************************************************************)
(* SDPHYCMDW: the Command Writer.                                          *)
(***************************************************************************)
\* bytes the controller may send
ByteSet == {0, 42, 255}

NoByte == [valid |-> FALSE, data |-> 0, last |-> FALSE]

\* the writer's bit selection with the index not mirrored (LSB first)
CMDW_WriteBit_LsbFirst(data, count) == IF count \in 0..7 THEN Bit(data, count) ELSE 0

\* Case(count, {i: pads_out.cmd.o.eq(sink.data[8-1-i]) for i in range(8)})
\* (no default: the output keeps its reset value 0 for any other count)
CMDW_WriteBit(data, count) == IF count \in 0..7 THEN Bit(data, 8 - 1 - count) ELSE 0

\* self.done: asserted in IDLE when no byte is pending
CMDW_done == cmdw_fsm = "IDLE" /\ ~cmdw_sink.valid

\* pads_out of the writer in the current cycle
CMDW_pads_out ==
    CASE cmdw_fsm = "WRITE" ->
            [clk |-> 1, cmd_oe |-> 1, cmd_o |-> CMDW_WriteBit(cmdw_sink.data, cmdw_count)]
      [] cmdw_fsm = "CLK8"  -> [clk |-> 1, cmd_oe |-> 1, cmd_o |-> 1]
      [] OTHER              -> [clk |-> 0, cmd_oe |-> 0, cmd_o |-> 0]

\* sink.ready of the writer in the current cycle
CMDW_sink_ready ==
    \/ cmdw_fsm = "WRITE" /\ cmdw_count = 8 - 1 /\ ~cmdw_sink.last
    \/ cmdw_fsm = "CLK8"  /\ cmdw_count = 8 - 1

\* fsm.act("IDLE", ...)
CMDW_IDLE ==
    /\ cmdw_fsm = "IDLE"
    /\ cmdw_count' = 0
    /\ cmdw_fsm' = IF cmdw_sink.valid THEN "WRITE" ELSE "IDLE"

\* fsm.act("WRITE", ...)
CMDW_WRITE ==
    /\ cmdw_fsm = "WRITE"
    /\ cmdw_count' = Inc(cmdw_count, 8)
    /\ cmdw_fsm' = IF cmdw_count = 8 - 1
                   THEN (IF cmdw_sink.last THEN "CLK8" ELSE "IDLE")
                   ELSE "WRITE"

\* fsm.act("CLK8", ...)
CMDW_CLK8 ==
    /\ cmdw_fsm = "CLK8"
    /\ cmdw_count' = Inc(cmdw_count, 8)
    /\ cmdw_fsm' = IF cmdw_count = 8 - 1 THEN "IDLE" ELSE "CLK8"

\* sink_cdc.source seen from the sd domain: a pending byte is held until it is
\* taken; once the source is free the controller may present the next byte.
CMDW_SinkEnv(bytes) ==
    IF cmdw_sink.valid /\ ~CMDW_sink_ready
    THEN UNCHANGED <<cmdw_sink, cmdw_in>>
    ELSE \/ /\ cmdw_sink' = NoByte
            /\ UNCHANGED cmdw_in
         \/ /\ Len(cmdw_in) < MaxBytes
            /\ \E d \in bytes, l \in BOOLEAN :
                  /\ cmdw_sink' = [valid |-> TRUE, data |-> d, last |-> l]
                  /\ cmdw_in' = Append(cmdw_in, [data |-> d, last |-> l])

\* what an observer of the command line and of the handshake records
CMDW_Observe ==
    /\ cmdw_line' = IF cmdw_fsm = "WRITE"
                    THEN Append(cmdw_line, CMDW_pads_out.cmd_o)
                    ELSE cmdw_line
    /\ cmdw_acks' = IF cmdw_sink.valid /\ CMDW_sink_ready
                    THEN cmdw_acks + 1 ELSE cmdw_acks
    /\ cmdw_trail' = CASE cmdw_fsm = "CLK8" -> cmdw_trail + 1
                       [] cmdw_fsm = "IDLE" /\ cmdw_sink.valid -> 0
                       [] OTHER -> cmdw_trail

\* History of the Command Reader's starts next to the Command Writer: what
\* the reader and the writer showed in the cycle of the last IDLE to WAIT
\* transition (n = 1 once there was one); pend tells that a request has been
\* waiting in IDLE while the writer did not report done, blocked that the
\* request of the last start had waited so.
CMDW_Init ==
    /\ start_ob = [n |-> 0, valid |-> FALSE, done |-> FALSE, wfsm |-> "IDLE",
                   wvalid |-> FALSE, pend |-> FALSE, blocked |-> FALSE]
    /\ cmdw_fsm = "IDLE"
    /\ cmdw_count = 0
    /\ cmdw_sink = NoByte
    /\ cmdw_in = <<>>
    /\ cmdw_line = <<>>
    /\ cmdw_acks = 0
    /\ cmdw_trail = 0

(***************************************************************************)
(* SDPHYR: the Bit Stream Reader (start detection, stream.Converter from   *)
(* data_width to 8 bits with reverse=True, stream.Buffer).                 *)
(* Its registers: run, the converter's demux, strobe_all and data, the     *)
(* buffer's valid and data.                                                *)
(***************************************************************************)
\* the registers after reset (ResetInserter: every register back to its reset value)
SDPHYR_Reset ==
    [run |-> FALSE, demux |-> 0, strobe_all |-> FALSE, cdata |-> 0,
     bvalid |-> FALSE, bdata |-> 0]

\* start.eq(pads_in_data == 0)
SDPHYR_start(sample) == sample = 0

\* converter.sink.valid.eq(run if skip_start_bit else (start | run))
SDPHYR_sink_valid(r, sample, skip) ==
    IF skip THEN r.run ELSE (SDPHYR_start(sample) \/ r.run)

\* data with its n-th chunk of dw bits replaced by v
\* (converter: source.data[n*nbits_from:(n+1)*nbits_from].eq(sink.data))
SetChunk(data, n, dw, v) ==
    data - ((data \div Pow2(n * dw)) % Pow2(dw)) * Pow2(n * dw) + v * Pow2(n * dw)

\* the chunk the converter writes at position demux: with reverse=True the
\* first sample lands in the most significant chunk
Converter_Chunk(demux, ratio) == ratio - demux - 1

\* buf.sink.ready: the buffer takes a byte when it is empty or being read
Buffer_sink_ready(r, ready) == ~r.bvalid \/ ready

\* the converter's load_part: sink.valid & sink.ready
Converter_load_part(r, sample, ready, skip) ==
    /\ SDPHYR_sink_valid(r, sample, skip)
    /\ (~r.strobe_all \/ Buffer_sink_ready(r, ready))

\* a converter without up-conversion (ratio 1) (what C10 is checked against)
Converter_Ratio_One(dw) == 1

\* the converter's ratio: nbits_to / nbits_from
Converter_Ratio(dw) == 8 \div dw

\* the registers after one sd clock edge without reset; sample is the value
\* of the configured line(s) in this cycle, ready the consumer's
\* source.ready, dw the data width
SDPHYR_Edge(r, sample, ready, dw, skip) ==
    LET ratio == Converter_Ratio(dw)
        load  == Converter_load_part(r, sample, ready, skip)
        full  == load /\ r.demux = ratio - 1
        take  == Buffer_sink_ready(r, ready)
    IN  [run        |-> SDPHYR_start(sample) \/ r.run,
         demux      |-> IF load THEN (IF full THEN 0 ELSE r.demux + 1) ELSE r.demux,
         strobe_all |-> IF full THEN TRUE
                        ELSE IF take THEN FALSE ELSE r.strobe_all,
         cdata      |-> IF load
                        THEN SetChunk(r.cdata, Converter_Chunk(r.demux, ratio), dw, sample)
                        ELSE r.cdata,
         bvalid     |-> IF take THEN r.strobe_all ELSE r.bvalid,
         bdata      |-> IF take THEN r.cdata ELSE r.bdata]

\* an SDPHYR without @ResetInserter() (what C9 is checked against)
SDPHYR_Step_NoReset(r, sample, ready, reset, dw, skip) ==
    SDPHYR_Edge(r, sample, ready, dw, skip)

\* the registers after one sd clock edge; reset is the reset input that
\* @ResetInserter() adds: it overrides every assignment
SDPHYR_Step(r, sample, ready, reset, dw, skip) ==
    IF reset THEN SDPHYR_Reset ELSE SDPHYR_Edge(r, sample, ready, dw, skip)

(***************************************************************************)
(* The card, as far as the readers see it: it holds a line high (idle),    *)
(* or drives a response: a start condition followed by bytes, the most     *)
(* significant bits first.                                                 *)
(***************************************************************************)
\* bytes the card may send
CardBytes == {42, 165}

\* the samples of byte b on dw lines, in line order
RECURSIVE Samples(_, _, _)
Samples(b, dw, n) ==
    IF n = 0 THEN <<>>
    ELSE <<(b \div Pow2((n - 1) * dw)) % Pow2(dw)>> \o Samples(b, dw, n - 1)

\* the byte packed from 8/dw samples in line order
RECURSIVE Pack(_, _)
Pack(ss, dw) ==
    IF ss = <<>> THEN 0
    ELSE Head(ss) * Pow2((Len(ss) - 1) * dw) + Pack(Tail(ss), dw)

\* the value sampled on the line in this cycle (pull-up when the card is silent)
Card_Sample(c, dw) == IF c.q = <<>> THEN Pow2(dw) - 1 ELSE Head(c.q)

\* the responses a silent card may begin. On the command line the start bit
\* is the most significant bit of the first byte; on the data lines it is a
\* nibble of its own
Card_Starts(dw) ==
    IF dw = 1
    THEN {Samples(b, 1, 8) : b \in {c \in CardBytes : Bit(c, 7) = 0}}
    ELSE {<<0>> \o Samples(b, dw, 8 \div dw) : b \in CardBytes}

Card_Silent == [q |-> <<>>, wait |-> 0]

\* the card after this cycle. The card is clocked by the PHY (pads_out.clk):
\* in a cycle without clock it holds its line. With clock: the rest of the
\* current byte; at a byte's end another byte or silence; from silence, within
\* MaxCardDelay cycles of the clock coming on, silence or a response (one per
\* burst of clock)
Card_Next(c, dw, clk) ==
    IF clk = 0 THEN {[c EXCEPT !.wait = 0]}
    ELSE IF c.q # <<>> /\ Tail(c.q) # <<>> THEN {[c EXCEPT !.q = Tail(c.q)]}
    ELSE IF c.q # <<>>
         THEN {[q |-> <<>>, wait |-> MaxCardDelay + 1]}
              \cup {[c EXCEPT !.q = Samples(b, dw, 8 \div dw)] : b \in CardBytes}
    ELSE {[c EXCEPT !.wait = IF @ <= MaxCardDelay THEN @ + 1 ELSE @]}
         \cup (IF c.wait <= MaxCardDelay
               THEN {[q |-> s, wait |-> MaxCardDelay + 1] : s \in Card_Starts(dw)}
               ELSE {})

Card_Init ==
    /\ card_cmd = Card_Silent
    /\ card_data = Card_Silent

(***************************************************************************)
(* What an observer of a reader FSM records about the current request.     *)
(***************************************************************************)
NoRequest == [valid |-> FALSE, length |-> 0, last |-> FALSE]

\* active: a request was accepted; length, last: its fields; ok, to: items
\* accepted with status OK, TIMEOUT; lastok: OK items accepted with last set;
\* lastpos: the position of the first of them; acks: cycles with sink.ready;
\* hit: the timeout branch fired; zero: the line showed a start condition
\* while the FSM waited or read.
\* armed: the reader was reset for this request. Since that reset: since:
\* cycles from the start detection to the first valid byte (0: no start
\* yet); seen: a byte was presented;
\* first: the samples the first byte is to be packed from; popped: a byte
\* was read; fwd: whether the first OK item of the request was that byte;
\* stall: cycles in which an item was presented and not accepted (counted up
\* to MaxStall); busyc: cycles spent in WAIT and the byte state; trail:
\* cycles spent in the trailer state (CLK8, CLK40).
Ob_Init ==
    [active |-> FALSE, length |-> 0, last |-> FALSE,
     ok |-> 0, lastok |-> 0, lastpos |-> 0, to |-> 0, acks |-> 0,
     hit |-> FALSE, zero |-> FALSE,
     stall |-> 0, armed |-> FALSE, since |-> 0, seen |-> FALSE, first |-> <<>>,
     popped |-> FALSE, fwd |-> "none", busyc |-> 0, trail |-> 0]

\* ob after a cycle in which: idle = the FSM is in IDLE; accept = it accepts
\* the request sink (IDLE to WAIT); src = the item presented on source;
\* ready = source.ready; ack = sink.ready; hit = the timeout branch fired;
\* busy = the FSM is in WAIT or its byte state; reset = the reader's reset
\* input; r = the reader's registers; sample = the line; trailer = the FSM
\* is in its trailer state.
\* The record of a finished request is kept for its first IDLE cycle.
Ob_Next(ob, idle, accept, sink, src, ready, ack, hit, busy, reset, r, sample, dw, skip, trailer) ==
    LET okacc == src.valid /\ ready /\ src.status = "OK"
        toacc == src.valid /\ ready /\ src.status = "TIMEOUT"
        det   == SDPHYR_start(sample) /\ ob.since = 0
        want  == Len(ob.first) < 8 \div dw /\ ~ob.popped
                 /\ (IF skip THEN ob.since > 0 ELSE (ob.since > 0 \/ det))
        good  == ~ob.popped /\ Len(ob.first) = 8 \div dw
                 /\ src.data = Pack(ob.first, dw)
    IN  IF accept
        THEN [Ob_Init EXCEPT !.active = TRUE, !.length = sink.length, !.last = sink.last]
        ELSE IF idle \/ ~ob.active THEN Ob_Init
        ELSE [ob EXCEPT
           !.ok      = @ + BoolBit(okacc),
           !.lastok  = @ + BoolBit(okacc /\ src.last),
           !.lastpos = IF okacc /\ src.last /\ @ = 0 THEN ob.ok + 1 ELSE @,
           !.to      = @ + BoolBit(toacc),
           !.acks    = @ + BoolBit(ack),
           !.hit     = @ \/ hit,
           !.stall   = IF ack THEN 0
                       ELSE IF src.valid /\ ~ready /\ @ <= MaxStall THEN @ + 1 ELSE @,
           !.busyc   = @ + BoolBit(busy),
           !.trail   = @ + BoolBit(trailer),
           !.zero    = @ \/ (busy /\ SDPHYR_start(sample)),
           !.fwd     = IF okacc /\ ob.ok = 0
                       THEN (IF good THEN "first" ELSE "other") ELSE @,
           !.armed   = @ \/ reset,
           !.since   = IF reset THEN 0
                       ELSE IF det THEN 1
                       ELSE IF @ > 0 /\ ~ob.seen /\ ~r.bvalid THEN @ + 1 ELSE @,
           !.seen    = IF reset THEN FALSE ELSE @ \/ r.bvalid,
           !.first   = IF reset \/ okacc THEN <<>>
                       ELSE IF want THEN Append(@, sample) ELSE @,
           !.popped  = IF reset THEN FALSE ELSE @ \/ okacc]

(***************************************************************************)
(* The line next to the result stream of a reader FSM: the bytes that went *)
(* over the line since the start condition and are not yet in the result   *)
(* stream.                                                                 *)
(***************************************************************************)
\* run: the start condition was seen since the reader's reset; part: the
\* samples of the byte on the line; pend: the bytes complete on the line and
\* not yet passed on; n: OK items passed on; bad: an OK item was not the
\* oldest of pend (the record is then kept as it is)
Fifo_Init == [run |-> FALSE, part |-> <<>>, pend |-> <<>>, n |-> 0, bad |-> FALSE]

\* ob after a cycle in which: idle = the FSM is in IDLE; busy = it is in WAIT
\* or its byte state (the states that clock the card and pass bytes on);
\* reset = the reader's reset input; sample = the line; src = the item on
\* source; ready = source.ready. The start condition is the first sample 0
\* after the reset (start.eq(pads_in_data == 0)); it belongs to the first
\* byte unless skip_start_bit.
\* The record of a finished request is kept for its first IDLE cycle.
Fifo_Next(ob, idle, busy, reset, sample, src, ready, dw, skip) ==
    LET okacc == src.valid /\ ready /\ src.status = "OK"
        det   == ~ob.run /\ SDPHYR_start(sample)
        part1 == IF ob.run \/ (det /\ ~skip) THEN Append(ob.part, sample) ELSE ob.part
        whole == Len(part1) = 8 \div dw
        rest  == IF okacc /\ ob.pend # <<>> THEN Tail(ob.pend) ELSE ob.pend
    IN  IF idle \/ reset THEN Fifo_Init
        ELSE IF ob.bad \/ ~busy THEN ob
        ELSE [run  |-> ob.run \/ det,
              part |-> IF whole THEN <<>> ELSE part1,
              pend |-> IF whole THEN Append(rest, Pack(part1, dw)) ELSE rest,
              n    |-> ob.n + BoolBit(okacc),
              bad  |-> okacc /\ (ob.pend = <<>> \/ Head(ob.pend) # src.data)]

(***************************************************************************)
(* SDPHYCMDR: the Command Reader.                                          *)
(***************************************************************************)
\* response lengths the controller may request
LengthSet == {0, 1, 2}

\* a timeout counter that never counts down (what C14 is checked against)
Dec32_Stuck(t) == t

\* timeout - 1 on the Signal(32); the all-ones value 2^32-1 that follows 0
\* is written -1 (it is reloaded before it is read again)
Dec32(t) == IF t = 0 THEN -1 ELSE t - 1

\* last asserted one item late, count == sink.length (what C7 is checked against)
CMDR_LastCount_OneLate(length) == length % Pow2(8)

\* the count at which source.last is asserted: count == (sink.length - 1).
\* In the generated Verilog both operands of == have the 8 bits of count and
\* of length, so length - 1 is 255 for length 0 (migen's own simulator
\* compares the integers: -1, which no count equals)
CMDR_LastCount(length) == (length + Pow2(8) - 1) % Pow2(8)

\* a TIMEOUT item without last (what C5 is checked against)
CMDR_source_TimeoutNotLast ==
    CASE cmdr_fsm = "CMD" ->
            [valid |-> cmdr_r.bvalid, status |-> "OK",
             last |-> (cmdr_count = CMDR_LastCount(cmdr_sink.length)),
             data |-> cmdr_r.bdata]
      [] cmdr_fsm = "TIMEOUT" ->
            [valid |-> TRUE, status |-> "TIMEOUT", last |-> FALSE, data |-> 0]
      [] OTHER ->
            [valid |-> FALSE, status |-> "OK", last |-> FALSE, data |-> 0]

\* source of the Command Reader (the sink of source_cdc) in this cycle
CMDR_source ==
    CASE cmdr_fsm = "CMD" ->
            [valid |-> cmdr_r.bvalid, status |-> "OK",
             last |-> (cmdr_count = CMDR_LastCount(cmdr_sink.length)),
             data |-> cmdr_r.bdata]
      [] cmdr_fsm = "TIMEOUT" ->
            [valid |-> TRUE, status |-> "TIMEOUT", last |-> TRUE, data |-> 0]
      [] OTHER ->
            [valid |-> FALSE, status |-> "OK", last |-> FALSE, data |-> 0]

\* If(timeout == 0, sink.ready.eq(1), NextState("TIMEOUT")) in WAIT and CMD
CMDR_timeout_hit == cmdr_fsm \in {"WAIT", "CMD"} /\ cmdr_timeout = 0

\* source.valid & source.ready in CMD
CMDR_accept(ready) == cmdr_fsm = "CMD" /\ CMDR_source.valid /\ ready

\* a request that the timeout does not consume (what C4 is checked against)
CMDR_sink_ready_NoTimeoutAck(ready) ==
    CMDR_accept(ready) /\ CMDR_source.last

\* sink.ready of the Command Reader in this cycle
CMDR_sink_ready(ready) ==
    \/ CMDR_accept(ready) /\ CMDR_source.last
    \/ CMDR_timeout_hit

\* pads_out of the Command Reader in this cycle
CMDR_pads_out ==
    CASE cmdr_fsm \in {"WAIT", "CMD"} -> [clk |-> 1, cmd_oe |-> 0, cmd_o |-> 0]
      [] cmdr_fsm = "CLK8"            -> [clk |-> 1, cmd_oe |-> 1, cmd_o |-> 1]
      [] OTHER                        -> [clk |-> 0, cmd_oe |-> 0, cmd_o |-> 0]

\* a reader that starts on sink.valid alone (what C15 is checked against)
CMDR_IDLE_Ungated(done) ==
    /\ cmdr_fsm = "IDLE"
    /\ cmdr_count' = 0
    /\ cmdr_timeout' = TimeoutReload
    /\ IF cmdr_sink.valid
       THEN cmdr_reset' = TRUE /\ cmdr_fsm' = "WAIT"
       ELSE cmdr_reset' = cmdr_reset /\ cmdr_fsm' = "IDLE"

\* fsm.act("IDLE", ...); done is cmdw.done
CMDR_IDLE(done) ==
    /\ cmdr_fsm = "IDLE"
    /\ cmdr_count' = 0
    /\ cmdr_timeout' = TimeoutReload
    /\ IF cmdr_sink.valid /\ done
       THEN cmdr_reset' = TRUE /\ cmdr_fsm' = "WAIT"
       ELSE cmdr_reset' = cmdr_reset /\ cmdr_fsm' = "IDLE"

\* fsm.act("WAIT", ...)
CMDR_WAIT ==
    /\ cmdr_fsm = "WAIT"
    /\ cmdr_reset' = FALSE
    /\ cmdr_timeout' = Dec32(cmdr_timeout)
    /\ cmdr_count' = cmdr_count
    /\ cmdr_fsm' = IF cmdr_timeout = 0 THEN "TIMEOUT"
                   ELSE IF cmdr_r.bvalid THEN "CMD" ELSE "WAIT"

\* fsm.act("CMD", ...)
CMDR_CMD(ready) ==
    /\ cmdr_fsm = "CMD"
    /\ cmdr_reset' = cmdr_reset
    /\ cmdr_timeout' = Dec32(cmdr_timeout)
    /\ cmdr_count' = IF CMDR_accept(ready)
                     THEN (IF CMDR_source.last /\ cmdr_sink.last THEN 0
                           ELSE Inc(cmdr_count, 8))
                     ELSE cmdr_count
    /\ cmdr_fsm' = IF cmdr_timeout = 0 THEN "TIMEOUT"
                   ELSE IF CMDR_accept(ready) /\ CMDR_source.last
                        THEN (IF cmdr_sink.last THEN "CLK8" ELSE "IDLE")
                        ELSE "CMD"

\* fsm.act("CLK8", ...)
CMDR_CLK8 ==
    /\ cmdr_fsm = "CLK8"
    /\ cmdr_count' = Inc(cmdr_count, 8)
    /\ cmdr_fsm' = IF cmdr_count = 8 - 1 THEN "IDLE" ELSE "CLK8"
    /\ UNCHANGED <<cmdr_timeout, cmdr_reset>>

\* fsm.act("TIMEOUT", ...)
CMDR_TIMEOUT(ready) ==
    /\ cmdr_fsm = "TIMEOUT"
    /\ cmdr_fsm' = IF ready THEN "IDLE" ELSE "TIMEOUT"
    /\ UNCHANGED <<cmdr_count, cmdr_timeout, cmdr_reset>>

\* the embedded reader: SDPHYR(cmd=True, data_width=1, skip_start_bit=False),
\* read (cmdr.source.ready) when CMD passes a byte on
CMDR_Reader(sample, ready) ==
    cmdr_r' = SDPHYR_Step(cmdr_r, sample, CMDR_accept(ready), cmdr_reset, 1, FALSE)

\* sink_cdc.source: a pending request is held until it is taken
CMDR_SinkEnv(ready) ==
    IF cmdr_sink.valid /\ ~CMDR_sink_ready(ready)
    THEN cmdr_sink' = cmdr_sink
    ELSE \/ cmdr_sink' = NoRequest
         \/ \E n \in LengthSet, l \in BOOLEAN :
               cmdr_sink' = [valid |-> TRUE, length |-> n, last |-> l]

CMDR_Observe(sample, ready, done) ==
    cmdr_ob' = Ob_Next(cmdr_ob, cmdr_fsm = "IDLE",
                       cmdr_fsm = "IDLE" /\ cmdr_sink.valid /\ done,
                       cmdr_sink, CMDR_source, ready,
                       cmdr_sink.valid /\ CMDR_sink_ready(ready),
                       CMDR_timeout_hit, cmdr_fsm \in {"WAIT", "CMD"},
                       cmdr_reset, cmdr_r, sample, 1, FALSE, cmdr_fsm = "CLK8")

CMDR_Init ==
    /\ cmdr_fsm = "IDLE"
    /\ cmdr_count = 0
    /\ cmdr_timeout = TimeoutReload
    /\ cmdr_reset = FALSE
    /\ cmdr_r = SDPHYR_Reset
    /\ cmdr_sink = NoRequest
    /\ cmdr_ob = Ob_Init

(***************************************************************************)
(* SDPHYDATAR: the Data Reader.                                            *)
(***************************************************************************)
\* block lengths the controller may request
BlockLengthSet == {0, 1, 1017}

\* the count at which source.last is asserted:
\* count == (sink.block_length + 8 - 1). In the generated Verilog both
\* operands of == have the 10 bits of count and of block_length, so the sum
\* wraps at 1024 (migen's own simulator compares the integers: a sum above
\* 1023, which no count equals)
DATAR_LastCount(length) == (length + 8 - 1) % Pow2(10)

\* source of the Data Reader in this cycle
DATAR_source ==
    CASE datar_fsm = "DATA" ->
            [valid |-> datar_r.bvalid, status |-> "OK",
             last |-> (datar_count = DATAR_LastCount(datar_sink.length)),
             data |-> datar_r.bdata]
      [] datar_fsm = "TIMEOUT" ->
            [valid |-> TRUE, status |-> "TIMEOUT", last |-> TRUE, data |-> 0]
      [] OTHER ->
            [valid |-> FALSE, status |-> "OK", last |-> FALSE, data |-> 0]

DATAR_timeout_hit == datar_fsm \in {"WAIT", "DATA"} /\ datar_timeout = 0

DATAR_accept(ready) == datar_fsm = "DATA" /\ DATAR_source.valid /\ ready

DATAR_sink_ready(ready) ==
    \/ DATAR_accept(ready) /\ DATAR_source.last
    \/ DATAR_timeout_hit

\* pads_out of the Data Reader: it only enables the clock
DATAR_pads_out ==
    [clk |-> BoolBit(datar_fsm \in {"WAIT", "DATA", "CLK40"}
                     \/ (datar_fsm = "IDLE" /\ datar_sink.valid)),
     data_oe |-> 0, data_o |-> 0]

\* fsm.act("IDLE", ...)
DATAR_IDLE ==
    /\ datar_fsm = "IDLE"
    /\ datar_count' = 0
    /\ IF datar_sink.valid
       THEN /\ datar_timeout' = TimeoutReload
            /\ datar_reset' = TRUE
            /\ datar_fsm' = "WAIT"
       ELSE /\ UNCHANGED <<datar_timeout, datar_reset>>
            /\ datar_fsm' = "IDLE"

\* fsm.act("WAIT", ...)
DATAR_WAIT ==
    /\ datar_fsm = "WAIT"
    /\ datar_reset' = FALSE
    /\ datar_timeout' = Dec32(datar_timeout)
    /\ datar_count' = datar_count
    /\ datar_fsm' = IF datar_timeout = 0 THEN "TIMEOUT"
                    ELSE IF datar_r.bvalid THEN "DATA" ELSE "WAIT"

\* fsm.act("DATA", ...)
DATAR_DATA(ready) ==
    /\ datar_fsm = "DATA"
    /\ datar_reset' = datar_reset
    /\ datar_timeout' = Dec32(datar_timeout)
    /\ datar_count' = IF DATAR_accept(ready)
                      THEN (IF DATAR_source.last /\ datar_sink.last THEN 0
                            ELSE Inc(datar_count, 10))
                      ELSE datar_count
    /\ datar_fsm' = IF datar_timeout = 0 THEN "TIMEOUT"
                    ELSE IF DATAR_accept(ready) /\ DATAR_source.last
                         THEN (IF datar_sink.last THEN "CLK40" ELSE "IDLE")
                         ELSE "DATA"

\* fsm.act("CLK40", ...)
DATAR_CLK40 ==
    /\ datar_fsm = "CLK40"
    /\ datar_count' = Inc(datar_count, 10)
    /\ datar_fsm' = IF datar_count = 40 - 1 THEN "IDLE" ELSE "CLK40"
    /\ UNCHANGED <<datar_timeout, datar_reset>>

\* fsm.act("TIMEOUT", ...)
DATAR_TIMEOUT(ready) ==
    /\ datar_fsm = "TIMEOUT"
    /\ datar_fsm' = IF ready THEN "IDLE" ELSE "TIMEOUT"
    /\ UNCHANGED <<datar_count, datar_timeout, datar_reset>>

\* the embedded reader: SDPHYR(data=True, data_width=4, skip_start_bit=True)
DATAR_Reader(sample, ready) ==
    datar_r' = SDPHYR_Step(datar_r, sample, DATAR_accept(ready), datar_reset, 4, TRUE)

DATAR_SinkEnv(ready) ==
    IF datar_sink.valid /\ ~DATAR_sink_ready(ready)
    THEN datar_sink' = datar_sink
    ELSE \/ datar_sink' = NoRequest
         \/ \E n \in BlockLengthSet, l \in BOOLEAN :
               datar_sink' = [valid |-> TRUE, length |-> n, last |-> l]

DATAR_Observe(sample, ready) ==
    datar_ob' = Ob_Next(datar_ob, datar_fsm = "IDLE",
                        datar_fsm = "IDLE" /\ datar_sink.valid,
                        datar_sink, DATAR_source, ready,
                        datar_sink.valid /\ DATAR_sink_ready(ready),
                        DATAR_timeout_hit, datar_fsm \in {"WAIT", "DATA"},
                        datar_reset, datar_r, sample, 4, TRUE, datar_fsm = "CLK40")

DATAR_Init ==
    /\ datar_fsm = "IDLE"
    /\ datar_count = 0
    /\ datar_timeout = TimeoutReload
    /\ datar_reset = FALSE
    /\ datar_r = SDPHYR_Reset
    /\ datar_sink = NoRequest
    /\ datar_ob = Ob_Init

(***************************************************************************)
(* SDPHYInit: the Init sequencer.                                          *)
(***************************************************************************)
\* pads_out of the Init sequencer in this cycle
INIT_pads_out ==
    IF init_fsm = "INITIALIZE"
    THEN [clk |-> 1, cmd_oe |-> 1, cmd_o |-> 1, data_oe |-> 1, data_o |-> 15]
    ELSE [clk |-> 0, cmd_oe |-> 0, cmd_o |-> 0, data_oe |-> 0, data_o |-> 0]

\* fsm.act("IDLE", ...); trigger is ps_initialize.o
INIT_IDLE(trigger) ==
    /\ init_fsm = "IDLE"
    /\ init_count' = 0
    /\ init_fsm' = IF trigger THEN "INITIALIZE" ELSE "IDLE"

\* a sequence that ends one cycle late, count == 80 (what C13 is checked against)
INIT_IsLast_OneLate(count) == count = 80

\* If(count == (80-1), NextState("IDLE"))
INIT_IsLast(count) == count = 80 - 1

\* fsm.act("INITIALIZE", ...)
INIT_INITIALIZE ==
    /\ init_fsm = "INITIALIZE"
    /\ init_count' = Inc(init_count, 8)
    /\ init_fsm' = IF INIT_IsLast(init_count) THEN "IDLE" ELSE "INITIALIZE"

\* History of the sequencer: run counts the INITIALIZE cycles of the current
\* (or last) sequence, high tells that every one of them drove cmd and the
\* four data lines high with output-enable and clock asserted, fresh marks the
\* first IDLE cycle after a sequence, seqs counts the completed sequences
\* (saturating at 2) and trig the accepted triggers (likewise).
INIT_Observe(trigger) ==
    init_ob' =
        IF init_fsm = "IDLE"
        THEN IF trigger
             THEN [init_ob EXCEPT !.run = 0, !.high = TRUE, !.fresh = FALSE,
                                  !.trig = IF @ < 2 THEN @ + 1 ELSE @]
             ELSE [init_ob EXCEPT !.fresh = FALSE]
        ELSE [init_ob EXCEPT !.run = @ + 1,
                             !.high = @ /\ INIT_pads_out =
                                 [clk |-> 1, cmd_oe |-> 1, cmd_o |-> 1,
                                  data_oe |-> 1, data_o |-> 15],
                             !.fresh = (init_fsm' = "IDLE"),
                             !.seqs = IF init_fsm' = "IDLE" /\ @ < 2 THEN @ + 1 ELSE @]

INIT_Init ==
    /\ init_fsm = "IDLE"
    /\ init_count = 0
    /\ init_ob = [run |-> 0, high |-> TRUE, fresh |-> FALSE, seqs |-> 0, trig |-> 0]

(***************************************************************************)
(* SDPHYCRCR and SDPHYDATAW: the Data Writer and its CRC status reader.    *)
(***************************************************************************)
\* crc.start
CRCR_start == dataw_fsm = "STOP"

\* crcr.source.ready
CRCR_ready == crc_fsm = "WAIT-CHECK"

\* fsm.act("IDLE", ...) of SDPHYCRCR
CRCR_IDLE ==
    /\ crc_fsm = "IDLE"
    /\ IF CRCR_start
       THEN crc_reset' = TRUE /\ crc_fsm' = "WAIT-CHECK"
       ELSE crc_reset' = crc_reset /\ crc_fsm' = "IDLE"

\* fsm.act("WAIT-CHECK", ...)
CRCR_WAIT_CHECK ==
    /\ crc_fsm = "WAIT-CHECK"
    /\ crc_reset' = FALSE
    /\ crc_fsm' = IF crc_r.bvalid THEN "IDLE" ELSE "WAIT-CHECK"

\* self.valid.eq(crcr.source.data != 0b101) under If(crcr.source.valid)
CRCR_valid == crc_fsm = "WAIT-CHECK" /\ crc_r.bvalid /\ crc_r.bdata # 5

\* self.error.eq(crcr.source.data == 0b101) under If(crcr.source.valid)
CRCR_error == crc_fsm = "WAIT-CHECK" /\ crc_r.bvalid /\ crc_r.bdata = 5

\* the embedded reader: SDPHYR(data=True, data_width=1, skip_start_bit=True)
\* on data.i[0]
CRCR_Reader(data_i) ==
    crc_r' = SDPHYR_Step(crc_r, data_i % 2, CRCR_ready, crc_reset, 1, TRUE)

\* pads_out of the Data Writer in this cycle
DATAW_pads_out ==
    CASE dataw_fsm = "IDLE" /\ dataw_sink.valid ->
            [clk |-> 1, data_oe |-> 1,
             data_o |-> IF dataw_wrstarted THEN dataw_sink.data \div 16 ELSE 0]
      [] dataw_fsm = "START"    -> [clk |-> 1, data_oe |-> 1, data_o |-> dataw_sink.data \div 16]
      [] dataw_fsm = "DATA"     -> [clk |-> 1, data_oe |-> 1, data_o |-> dataw_sink.data % 16]
      [] dataw_fsm = "STOP"     -> [clk |-> 1, data_oe |-> 1, data_o |-> 15]
      [] dataw_fsm = "RESPONSE" -> [clk |-> 1, data_oe |-> 0, data_o |-> 0]
      [] OTHER                  -> [clk |-> 0, data_oe |-> 0, data_o |-> 0]

\* sink.ready of the Data Writer in this cycle; data_i is pads_in.data.i
DATAW_sink_ready(data_i) ==
    \/ dataw_fsm = "DATA" /\ ~dataw_sink.last
    \/ dataw_fsm = "RESPONSE" /\ ~(dataw_count < 16) /\ data_i % 2 = 1

\* History of the Data Writer and of its CRC decoder.  Of the current
\* transfer: bytes = the bytes that have been through DATA, line = the values
\* driven on data.o in the cycles with data.oe, acks / lastacks = the
\* acknowledgements of non-final / final bytes, badack = an acknowledgement
\* out of place (a non-final byte outside DATA, a final byte outside
\* RESPONSE), resp = the RESPONSE cycles, rel = those of them after the
\* first 16 in which data line 0 read 1, done = the final byte has been
\* consumed.  Of the decoder: pending = start pulses minus decision cycles,
\* tok = the CRC status the card began to drive since the last start pulse
\* (-1: none), dec = the decision made since the last start pulse, dtok =
\* tok at that decision.
\* dataw_ob after this cycle; data_i is pads_in.data.i, status the first
\* samples of a CRC status the card begins to drive after this cycle
\* (<<>>: none)
DATAW_Observe(data_i, status) ==
    LET out   == DATAW_pads_out
        ack   == dataw_sink.valid /\ DATAW_sink_ready(data_i)
        fresh == out.data_oe = 1 /\ dataw_ob.done
        ob    == IF fresh
                 THEN [dataw_ob EXCEPT !.bytes = <<>>, !.line = <<>>, !.acks = 0,
                                       !.lastacks = 0, !.resp = 0, !.rel = 0,
                                       !.done = FALSE]
                 ELSE dataw_ob
        decide == CRCR_valid \/ CRCR_error
        diff  == ob.pending + BoolBit(CRCR_start) - BoolBit(decide)
    IN  dataw_ob' = [ob EXCEPT
           !.bytes    = IF dataw_fsm = "DATA"
                        THEN Append(@, [data |-> dataw_sink.data,
                                        last |-> dataw_sink.last])
                        ELSE @,
           !.line     = IF out.data_oe = 1 THEN Append(@, out.data_o) ELSE @,
           !.acks     = @ + BoolBit(ack /\ ~dataw_sink.last),
           !.lastacks = IF ack /\ dataw_sink.last /\ @ < 2 THEN @ + 1 ELSE @,
           !.badack   = @ \/ (ack /\ ~dataw_sink.last /\ dataw_fsm # "DATA")
                          \/ (ack /\ dataw_sink.last /\ dataw_fsm # "RESPONSE"),
           !.resp     = @ + BoolBit(dataw_fsm = "RESPONSE"),
           !.rel      = IF dataw_fsm = "RESPONSE" /\ ob.resp >= 16 /\ data_i % 2 = 1
                           /\ @ < 2
                        THEN @ + 1 ELSE @,
           !.done     = @ \/ (ack /\ dataw_sink.last),
           !.pending  = IF diff > 2 THEN 2 ELSE IF diff < -1 THEN -1 ELSE diff,
           !.tok      = IF status # <<>>
                        THEN 4 * (status[2] % 2) + 2 * (status[3] % 2) + (status[4] % 2)
                        ELSE IF CRCR_start THEN -1 ELSE @,
           !.dec      = IF CRCR_error THEN "error"
                        ELSE IF CRCR_valid THEN "valid"
                        ELSE IF CRCR_start THEN "none" ELSE @,
           !.dtok     = IF decide THEN ob.tok
                        ELSE IF CRCR_start THEN -1 ELSE @]

\* fsm.act("IDLE", ...)
DATAW_IDLE ==
    /\ dataw_fsm = "IDLE"
    /\ dataw_fsm' = IF dataw_sink.valid
                    THEN (IF dataw_wrstarted THEN "DATA" ELSE "START")
                    ELSE "IDLE"
    /\ UNCHANGED <<dataw_count, dataw_wrstarted>>

\* a START that does not set the started flag (what C17 is checked against)
DATAW_START_NoFlag ==
    /\ dataw_fsm = "START"
    /\ dataw_fsm' = "DATA"
    /\ UNCHANGED <<dataw_count, dataw_wrstarted>>

\* fsm.act("START", ...)
DATAW_START ==
    /\ dataw_fsm = "START"
    /\ dataw_wrstarted' = TRUE
    /\ dataw_fsm' = "DATA"
    /\ UNCHANGED dataw_count

\* fsm.act("DATA", ...)
DATAW_DATA ==
    /\ dataw_fsm = "DATA"
    /\ dataw_fsm' = IF dataw_sink.last THEN "STOP" ELSE "IDLE"
    /\ UNCHANGED <<dataw_count, dataw_wrstarted>>

\* fsm.act("STOP", ...)
DATAW_STOP ==
    /\ dataw_fsm = "STOP"
    /\ dataw_wrstarted' = FALSE
    /\ dataw_fsm' = "RESPONSE"
    /\ UNCHANGED dataw_count

\* a RESPONSE that leaves after its 16 cycles whatever data line 0 reads
\* (what C18 is checked against)
DATAW_RESPONSE_NoBusyWait(data_i) ==
    /\ dataw_fsm = "RESPONSE"
    /\ IF dataw_count < 16
       THEN dataw_count' = Inc(dataw_count, 8) /\ dataw_fsm' = "RESPONSE"
       ELSE dataw_count' = 0 /\ dataw_fsm' = "IDLE"
    /\ UNCHANGED dataw_wrstarted

\* fsm.act("RESPONSE", ...)
DATAW_RESPONSE(data_i) ==
    /\ dataw_fsm = "RESPONSE"
    /\ IF dataw_count < 16
       THEN dataw_count' = Inc(dataw_count, 8) /\ dataw_fsm' = "RESPONSE"
       ELSE IF data_i % 2 = 1
            THEN dataw_count' = 0 /\ dataw_fsm' = "IDLE"
            ELSE dataw_count' = dataw_count /\ dataw_fsm' = "RESPONSE"
    /\ UNCHANGED dataw_wrstarted

DATAW_Init ==
    /\ dataw_ob = [bytes |-> <<>>, line |-> <<>>, acks |-> 0, lastacks |-> 0,
                   badack |-> FALSE, resp |-> 0, rel |-> 0, done |-> TRUE,
                   pending |-> 0, tok |-> -1, dec |-> "none", dtok |-> -1]
    /\ dataw_fsm = "IDLE"
    /\ dataw_count = 0
    /\ dataw_wrstarted = FALSE
    /\ dataw_sink = NoByte
    /\ crc_fsm = "IDLE"
    /\ crc_reset = FALSE
    /\ crc_r = SDPHYR_Reset

(***************************************************************************)
(* SDPHYClocker: the line clock is a tap of a free-running 8-bit counter   *)
(* of the control clock, chosen by the divider CSR.                        *)
(***************************************************************************)
DividerSet == {0, 1, 2, 3, 4, 8, 16, 32, 64, 128, 255}

\* the tap one bit higher, divider[i] for 2**i (what C12 is checked against)
CLK_Tap_OneUp(storage) ==
    IF \E i \in 1..7 : storage = Pow2(i)
    THEN CHOOSE i \in 1..7 : storage = Pow2(i)
    ELSE 0

\* cases["default"] = clk.eq(divider[0]); cases[2**i] = clk.eq(divider[i-1])
CLK_Tap(storage) ==
    IF \E i \in 1..7 : storage = Pow2(i)
    THEN (CHOOSE i \in 1..7 : storage = Pow2(i)) - 1
    ELSE 0

\* self.comb += Case(self.divider.storage, cases)
CLK_clk(counter, storage) == Bit(counter, CLK_Tap(storage))

\* One control-clock cycle: self.sync += divider.eq(divider + 1); the CSR
\* keeps its value or is written with d.  The period is measured between
\* rising edges of cd_sd.clk under an unchanged divider.
CLK_Cycle(d) ==
    LET rising == CLK_clk(clk_counter, clk_storage) = 0
                  /\ CLK_clk(Inc(clk_counter, 8), clk_storage) = 1
    IN  /\ clk_counter' = Inc(clk_counter, 8)
        /\ clk_storage' = d
        /\ IF d # clk_storage
           THEN clk_since' = -1 /\ clk_period' = 0
           ELSE IF rising
                THEN /\ clk_since' = 0
                     /\ clk_period' = IF clk_since >= 0 THEN clk_since + 1 ELSE clk_period
                ELSE /\ clk_since' = IF clk_since >= 0 THEN clk_since + 1 ELSE -1
                     /\ clk_period' = clk_period

CLK_Init ==
    /\ clk_counter = 0
    /\ clk_storage = 128
    /\ clk_since = -1
    /\ clk_period = 0

(***************************************************************************)
(* The Command Writer on its own.                                          *)
(***************************************************************************)
BenchCMDW ==
    /\ CMDW_SinkEnv(ByteSet)
    /\ CMDW_Observe
    /\ UNCHANGED <<cmdrVars, datarVars, cardVars, benchVars, initVars, datawVars, ops, auxVars>>

TickCMDW_IDLE  == CMDW_IDLE  /\ BenchCMDW
TickCMDW_WRITE == CMDW_WRITE /\ BenchCMDW
TickCMDW_CLK8  == CMDW_CLK8  /\ BenchCMDW

\* every module after construction
PHY_Init ==
    /\ INIT_Init /\ CMDW_Init /\ CMDR_Init /\ DATAW_Init /\ DATAR_Init /\ Card_Init
    /\ CLK_Init
    /\ loop_out = <<>>
    /\ ops = 0
    /\ fifo_ob = Fifo_Init

InitCMDW == PHY_Init /\ dut = "cmdw"
NextCMDW == TickCMDW_IDLE \/ TickCMDW_WRITE \/ TickCMDW_CLK8
SpecCMDW == InitCMDW /\ [][NextCMDW]_vars

(***************************************************************************)
(* The Command Reader and the Data Reader, each on its own against a card  *)
(* and a result consumer that may hold source.ready low.                   *)
(***************************************************************************)
\* the values source.ready may take in this cycle
Consumer(ob) == IF ob.stall < MaxStall THEN BOOLEAN ELSE {TRUE}

BenchCMDR(ready, done) ==
    /\ dut = "cmdr"
    /\ CMDR_Reader(Card_Sample(card_cmd, 1), ready)
    /\ CMDR_SinkEnv(ready)
    /\ CMDR_Observe(Card_Sample(card_cmd, 1), ready, done)
    /\ card_cmd' \in Card_Next(card_cmd, 1, CMDR_pads_out.clk)
    /\ UNCHANGED <<cmdwVars, datarVars, card_data, benchVars, initVars, datawVars, ops, auxVars>>

TickCMDR_IDLE    == \E done \in BOOLEAN : CMDR_IDLE(done) /\ BenchCMDR(FALSE, done)
TickCMDR_WAIT    == CMDR_WAIT /\ BenchCMDR(FALSE, FALSE)
TickCMDR_CMD     == \E ready \in Consumer(cmdr_ob) : CMDR_CMD(ready) /\ BenchCMDR(ready, FALSE)
TickCMDR_CLK8    == CMDR_CLK8 /\ BenchCMDR(FALSE, FALSE)
TickCMDR_TIMEOUT == \E ready \in Consumer(cmdr_ob) : CMDR_TIMEOUT(ready) /\ BenchCMDR(ready, FALSE)

BenchDATAR(ready) ==
    /\ dut = "datar"
    /\ DATAR_Reader(Card_Sample(card_data, 4), ready)
    /\ DATAR_SinkEnv(ready)
    /\ DATAR_Observe(Card_Sample(card_data, 4), ready)
    /\ card_data' \in Card_Next(card_data, 4, DATAR_pads_out.clk)
    /\ UNCHANGED <<cmdwVars, cmdrVars, card_cmd, benchVars, initVars, datawVars, ops, auxVars>>

TickDATAR_IDLE    == DATAR_IDLE /\ BenchDATAR(FALSE)
TickDATAR_WAIT    == DATAR_WAIT /\ BenchDATAR(FALSE)
TickDATAR_DATA    == \E ready \in Consumer(datar_ob) : DATAR_DATA(ready) /\ BenchDATAR(ready)
TickDATAR_CLK40   == DATAR_CLK40 /\ BenchDATAR(FALSE)
TickDATAR_TIMEOUT == \E ready \in Consumer(datar_ob) : DATAR_TIMEOUT(ready) /\ BenchDATAR(ready)

InitReaders == PHY_Init /\ dut \in {"cmdr", "datar"}

NextReaders ==
    \/ TickCMDR_IDLE \/ TickCMDR_WAIT \/ TickCMDR_CMD \/ TickCMDR_CLK8 \/ TickCMDR_TIMEOUT
    \/ TickDATAR_IDLE \/ TickDATAR_WAIT \/ TickDATAR_DATA \/ TickDATAR_CLK40
    \/ TickDATAR_TIMEOUT

SpecReaders == InitReaders /\ [][NextReaders]_vars

(***************************************************************************)
(* The readers against a consumer that may refuse every item for as long   *)
(* as it likes.                                                            *)
(***************************************************************************)
StallCMDR_CMD     == \E ready \in BOOLEAN : CMDR_CMD(ready) /\ BenchCMDR(ready, FALSE)
StallCMDR_TIMEOUT == \E ready \in BOOLEAN : CMDR_TIMEOUT(ready) /\ BenchCMDR(ready, FALSE)
StallDATAR_DATA    == \E ready \in BOOLEAN : DATAR_DATA(ready) /\ BenchDATAR(ready)
StallDATAR_TIMEOUT == \E ready \in BOOLEAN : DATAR_TIMEOUT(ready) /\ BenchDATAR(ready)

NextStall ==
    \/ TickCMDR_IDLE \/ TickCMDR_WAIT \/ StallCMDR_CMD \/ TickCMDR_CLK8 \/ StallCMDR_TIMEOUT
    \/ TickDATAR_IDLE \/ TickDATAR_WAIT \/ StallDATAR_DATA \/ TickDATAR_CLK40
    \/ StallDATAR_TIMEOUT

SpecStall == InitReaders /\ [][NextStall]_vars

(***************************************************************************)
(* Loopback: the command line a Command Writer drives is the command-line  *)
(* input of the Command Reader built on it (SDPHYCMDR(..., cmdw)).  The    *)
(* controller asks for MaxBytes response bytes, and once the reader is     *)
(* armed it hands the writer a payload of MaxBytes bytes, back to back,    *)
(* whose first bit is 0.                                                   *)
(***************************************************************************)
\* the command line as the reader samples it: what is driven when a
\* pads_out enables the output (or_ of the outputs), else the pull-up
Loop_cmd_i ==
    IF CMDW_pads_out.cmd_oe = 1 \/ CMDR_pads_out.cmd_oe = 1
    THEN (IF CMDW_pads_out.cmd_o = 1 \/ CMDR_pads_out.cmd_o = 1 THEN 1 ELSE 0)
    ELSE 1

\* the reader was reset for the request and samples the line
Loop_Armed == cmdr_fsm \in {"WAIT", "CMD"} /\ ~cmdr_reset

\* the bytes the payload may continue with: the first has its bit 7 clear
Loop_Bytes ==
    IF cmdw_in = <<>> THEN {b \in ByteSet : Bit(b, 7) = 0} ELSE ByteSet

\* the writer's sink: the first byte comes at some cycle after the reader is
\* armed, each following byte as soon as the one before is taken; the last
\* byte of the payload carries last
Loop_WriterEnv ==
    IF cmdw_sink.valid /\ ~CMDW_sink_ready
    THEN UNCHANGED <<cmdw_sink, cmdw_in>>
    ELSE IF Len(cmdw_in) < MaxBytes /\ (Loop_Armed \/ cmdw_in # <<>>)
    THEN \/ /\ cmdw_in = <<>>
            /\ cmdw_sink' = NoByte
            /\ UNCHANGED cmdw_in
         \/ \E d \in Loop_Bytes :
               LET item == [data |-> d, last |-> (Len(cmdw_in) + 1 = MaxBytes)]
               IN  /\ cmdw_sink' = [valid |-> TRUE, data |-> d, last |-> item.last]
                   /\ cmdw_in' = Append(cmdw_in, item)
    ELSE /\ cmdw_sink' = NoByte
         /\ UNCHANGED cmdw_in

\* the reader's sink: the one request, held until it is taken
Loop_ReaderEnv(ready) ==
    cmdr_sink' = IF cmdr_sink.valid /\ CMDR_sink_ready(ready)
                 THEN NoRequest ELSE cmdr_sink

\* the Command Writer in this cycle, whatever its state
CMDW_Tick == CMDW_IDLE \/ CMDW_WRITE \/ CMDW_CLK8

BenchLoop(ready) ==
    /\ dut = "loop"
    /\ CMDW_Tick
    /\ Loop_WriterEnv
    /\ CMDW_Observe
    /\ CMDR_Reader(Loop_cmd_i, ready)
    /\ Loop_ReaderEnv(ready)
    /\ CMDR_Observe(Loop_cmd_i, ready, CMDW_done)
    /\ loop_out' = IF CMDR_accept(ready)
                   THEN Append(loop_out, CMDR_source.data) ELSE loop_out
    /\ UNCHANGED <<datarVars, cardVars, dut, initVars, datawVars, ops, auxVars>>

TickLoop_IDLE    == CMDR_IDLE(CMDW_done) /\ BenchLoop(FALSE)
TickLoop_WAIT    == CMDR_WAIT /\ BenchLoop(FALSE)
TickLoop_CMD     == \E ready \in Consumer(cmdr_ob) : CMDR_CMD(ready) /\ BenchLoop(ready)
TickLoop_CLK8    == CMDR_CLK8 /\ BenchLoop(FALSE)
TickLoop_TIMEOUT == \E ready \in Consumer(cmdr_ob) : CMDR_TIMEOUT(ready) /\ BenchLoop(ready)

InitLoop ==
    /\ INIT_Init /\ CMDW_Init /\ DATAW_Init /\ DATAR_Init /\ Card_Init
    /\ CLK_Init
    /\ ops = 0
    /\ cmdr_fsm = "IDLE"
    /\ cmdr_count = 0
    /\ cmdr_timeout = TimeoutReload
    /\ cmdr_reset = FALSE
    /\ cmdr_r = SDPHYR_Reset
    /\ \E l \in BOOLEAN : cmdr_sink = [valid |-> TRUE, length |-> MaxBytes, last |-> l]
    /\ cmdr_ob = Ob_Init
    /\ loop_out = <<>>
    /\ fifo_ob = Fifo_Init
    /\ dut = "loop"

NextLoop ==
    TickLoop_IDLE \/ TickLoop_WAIT \/ TickLoop_CMD \/ TickLoop_CLK8 \/ TickLoop_TIMEOUT

SpecLoop == InitLoop /\ [][NextLoop]_vars

(***************************************************************************)
(* The assembled PHY (SDPHY): the five modules step together on every sd   *)
(* clock edge, their pads_out are or-ed onto the pads, and every module    *)
(* reads the same pads.  The controller applies at most one stimulus per   *)
(* cycle, MaxOps in a run, in any order and at any time; result consumers  *)
(* are always ready.  The card answers on the command line and leaves the  *)
(* data lines to their pull-ups.                                           *)
(***************************************************************************)
\* what the controller's stimuli carry in the assembled PHY
PHY_Bytes == {42}
PHY_Lengths == {1}
PHY_BlockLengths == {1}

\* reduce(or_, ...) of two 4-bit values
Or4(a, b) ==
    LET m(i) == IF Bit(a, i) = 1 \/ Bit(b, i) = 1 THEN Pow2(i) ELSE 0
    IN  m(0) + m(1) + m(2) + m(3)

\* pads_out.cmd.oe and pads_out.data.oe of each of [init, cmdw, cmdr, dataw,
\* datar] (a module that never assigns an output-enable leaves it 0)
PHY_cmd_oe_of ==
    [init  |-> INIT_pads_out.cmd_oe, cmdw  |-> CMDW_pads_out.cmd_oe,
     cmdr  |-> CMDR_pads_out.cmd_oe, dataw |-> 0, datar |-> 0]
PHY_data_oe_of ==
    [init  |-> INIT_pads_out.data_oe, cmdw  |-> 0, cmdr |-> 0,
     dataw |-> DATAW_pads_out.data_oe, datar |-> DATAR_pads_out.data_oe]

\* sdpads: the or-reduction of the modules' pads_out
PHY_clk ==
    BoolBit(\/ init_fsm = "INITIALIZE"
            \/ CMDW_pads_out.clk = 1 \/ CMDR_pads_out.clk = 1
            \/ DATAW_pads_out.clk = 1 \/ DATAR_pads_out.clk = 1)
PHY_cmd_oe == BoolBit(\E m \in DOMAIN PHY_cmd_oe_of : PHY_cmd_oe_of[m] = 1)
PHY_cmd_o ==
    BoolBit(1 \in {INIT_pads_out.cmd_o, CMDW_pads_out.cmd_o, CMDR_pads_out.cmd_o})
PHY_data_oe == BoolBit(\E m \in DOMAIN PHY_data_oe_of : PHY_data_oe_of[m] = 1)
PHY_data_o ==
    Or4(INIT_pads_out.data_o, Or4(DATAW_pads_out.data_o, DATAR_pads_out.data_o))

\* sdpads.cmd.i and sdpads.data.i: the pad carries what the PHY drives when
\* it enables its output, else what the card drives or the pull-up
PHY_cmd_i == IF PHY_cmd_oe = 1 THEN PHY_cmd_o ELSE Card_Sample(card_cmd, 1)
PHY_data_i == IF PHY_data_oe = 1 THEN PHY_data_o ELSE Card_Sample(card_data, 4)

\* each FSM in this cycle, whatever its state
INIT_Tick(trigger) == INIT_IDLE(trigger) \/ INIT_INITIALIZE
CMDR_Tick(ready, done) ==
    \/ CMDR_IDLE(done) \/ CMDR_WAIT \/ CMDR_CMD(ready) \/ CMDR_CLK8
    \/ CMDR_TIMEOUT(ready)
DATAR_Tick(ready) ==
    \/ DATAR_IDLE \/ DATAR_WAIT \/ DATAR_DATA(ready) \/ DATAR_CLK40
    \/ DATAR_TIMEOUT(ready)
DATAW_Tick(data_i) ==
    \/ DATAW_IDLE \/ DATAW_START \/ DATAW_DATA \/ DATAW_STOP
    \/ DATAW_RESPONSE(data_i)
CRCR_Tick == CRCR_IDLE \/ CRCR_WAIT_CHECK

\* one sd clock edge of the assembled PHY; trigger is the init pulse, cw, cr,
\* dw, dr what the controller's streams present next where the sink is free
PHY_Step(trigger, cw, cr, dw, dr) ==
    LET cmd_i  == PHY_cmd_i
        data_i == PHY_data_i
    IN  /\ dut = "phy"
        /\ INIT_Tick(trigger)
        /\ CMDW_Tick
        /\ CMDR_Tick(TRUE, CMDW_done)
        /\ CMDR_Reader(cmd_i, TRUE)
        /\ DATAW_Tick(data_i)
        /\ CRCR_Tick
        /\ CRCR_Reader(data_i)
        /\ DATAR_Tick(TRUE)
        /\ DATAR_Reader(data_i, TRUE)
        /\ cmdw_sink' = IF cmdw_sink.valid /\ ~CMDW_sink_ready THEN cmdw_sink ELSE cw
        /\ cmdr_sink' = IF cmdr_sink.valid /\ ~CMDR_sink_ready(TRUE)
                        THEN cmdr_sink ELSE cr
        /\ dataw_sink' = IF dataw_sink.valid /\ ~DATAW_sink_ready(data_i)
                         THEN dataw_sink ELSE dw
        /\ datar_sink' = IF datar_sink.valid /\ ~DATAR_sink_ready(TRUE)
                         THEN datar_sink ELSE dr
        /\ card_cmd' \in Card_Next(card_cmd, 1, PHY_clk)
        /\ card_data' = card_data
        /\ UNCHANGED <<cmdw_in, cmdw_line, cmdw_acks, cmdw_trail, cmdr_ob, datar_ob,
                       benchVars, auxVars>>

\* the controller applies nothing in this cycle
PHY_Quiet ==
    /\ PHY_Step(FALSE, NoByte, NoRequest, NoByte, NoRequest)
    /\ UNCHANGED ops

\* the controller writes the initialize CSR
PHY_InitTrigger ==
    /\ ops < MaxOps
    /\ ops' = ops + 1
    /\ PHY_Step(TRUE, NoByte, NoRequest, NoByte, NoRequest)

\* the controller hands a byte to the Command Writer
PHY_CmdWrite ==
    /\ ops < MaxOps
    /\ ops' = ops + 1
    /\ ~(cmdw_sink.valid /\ ~CMDW_sink_ready)
    /\ \E d \in PHY_Bytes, l \in BOOLEAN :
          PHY_Step(FALSE, [valid |-> TRUE, data |-> d, last |-> l],
                   NoRequest, NoByte, NoRequest)

\* the controller asks the Command Reader for a response
PHY_CmdRead ==
    /\ ops < MaxOps
    /\ ops' = ops + 1
    /\ ~(cmdr_sink.valid /\ ~CMDR_sink_ready(TRUE))
    /\ \E n \in PHY_Lengths, l \in BOOLEAN :
          PHY_Step(FALSE, NoByte, [valid |-> TRUE, length |-> n, last |-> l],
                   NoByte, NoRequest)

\* the controller hands a byte to the Data Writer
PHY_DataWrite ==
    /\ ops < MaxOps
    /\ ops' = ops + 1
    /\ ~(dataw_sink.valid /\ ~DATAW_sink_ready(PHY_data_i))
    /\ \E d \in PHY_Bytes, l \in BOOLEAN :
          PHY_Step(FALSE, NoByte, NoRequest,
                   [valid |-> TRUE, data |-> d, last |-> l], NoRequest)

\* the controller asks the Data Reader for a block
PHY_DataRead ==
    /\ ops < MaxOps
    /\ ops' = ops + 1
    /\ ~(datar_sink.valid /\ ~DATAR_sink_ready(TRUE))
    /\ \E n \in PHY_BlockLengths, l \in BOOLEAN :
          PHY_Step(FALSE, NoByte, NoRequest, NoByte,
                   [valid |-> TRUE, length |-> n, last |-> l])

InitPHY == PHY_Init /\ dut = "phy"

NextPHY ==
    \/ PHY_Quiet \/ PHY_InitTrigger \/ PHY_CmdWrite \/ PHY_CmdRead
    \/ PHY_DataWrite \/ PHY_DataRead

SpecPHY == InitPHY /\ [][NextPHY]_vars

(***************************************************************************)
(* The Data Writer with its CRC decoder, and a card that answers a block   *)
(* on data line 0 with a CRC status and busy, or stays silent.             *)
(***************************************************************************)
\* the CRC status responses: start bit, 3-bit status, end bit, then busy;
\* the three upper data lines stay high
Card_CrcStatus ==
    {<<14>> \o [i \in 1..3 |-> 14 + Samples(t, 1, 3)[i]] \o <<15>> \o [i \in 1..k |-> 14] :
        t \in {2, 5}, k \in {0, MaxBusy}}

\* the card after this cycle: it is clocked by the writer, takes note of the
\* end of a block (STOP) and may begin its CRC status within MaxCardDelay
\* RESPONSE cycles
Card_CrcNext(c) ==
    IF DATAW_pads_out.clk = 0 THEN {c}
    ELSE IF c.q # <<>> THEN {[c EXCEPT !.q = Tail(c.q)]}
    ELSE IF dataw_fsm = "STOP" THEN {[c EXCEPT !.wait = 0]}
    ELSE IF dataw_fsm = "RESPONSE" /\ c.wait <= MaxCardDelay
         THEN {[c EXCEPT !.wait = @ + 1]}
              \cup {[q |-> st, wait |-> MaxCardDelay + 1] : st \in Card_CrcStatus}
    ELSE {c}

\* the writer's sink: a byte is held until it is taken; a transfer has at
\* most MaxBytes bytes, the last of them marked last
DATAW_SinkEnv(data_i) ==
    IF dataw_sink.valid /\ ~DATAW_sink_ready(data_i)
    THEN dataw_sink' = dataw_sink
    ELSE \/ dataw_sink' = NoByte
         \/ \E d \in ByteSet, l \in BOOLEAN :
               /\ (~dataw_ob'.done /\ Len(dataw_ob'.bytes) + 1 >= MaxBytes) => l
               /\ dataw_sink' = [valid |-> TRUE, data |-> d, last |-> l]

BenchDATAW ==
    LET data_i == PHY_data_i
    IN  /\ dut = "dataw"
        /\ CRCR_Tick
        /\ CRCR_Reader(data_i)
        /\ card_data' \in Card_CrcNext(card_data)
        /\ DATAW_Observe(data_i, IF card_data.q = <<>> THEN card_data'.q ELSE <<>>)
        /\ DATAW_SinkEnv(data_i)
        /\ UNCHANGED <<cmdwVars, cmdrVars, datarVars, card_cmd, benchVars, initVars, ops,
                       clkVars, init_ob, start_ob, fifo_ob>>

TickDATAW_IDLE     == DATAW_IDLE /\ BenchDATAW
TickDATAW_START    == DATAW_START /\ BenchDATAW
TickDATAW_DATA     == DATAW_DATA /\ BenchDATAW
TickDATAW_STOP     == DATAW_STOP /\ BenchDATAW
TickDATAW_RESPONSE == DATAW_RESPONSE(PHY_data_i) /\ BenchDATAW

InitDATAW == PHY_Init /\ dut = "dataw"
NextDATAW ==
    \/ TickDATAW_IDLE \/ TickDATAW_START \/ TickDATAW_DATA \/ TickDATAW_STOP
    \/ TickDATAW_RESPONSE
SpecDATAW == InitDATAW /\ [][NextDATAW]_vars

(***************************************************************************)
(* The command path: the Command Writer and the Command Reader on the      *)
(* shared command line, the card silent, the result consumer always ready. *)
(***************************************************************************)
CmdPath_Step(cw, cr) ==
    LET cmd_i == PHY_cmd_i
    IN  /\ dut = "cmdpath"
        /\ CMDW_Tick
        /\ CMDR_Tick(TRUE, CMDW_done)
        /\ CMDR_Reader(cmd_i, TRUE)
        /\ cmdw_sink' = IF cmdw_sink.valid /\ ~CMDW_sink_ready THEN cmdw_sink ELSE cw
        /\ cmdr_sink' = IF cmdr_sink.valid /\ ~CMDR_sink_ready(TRUE)
                        THEN cmdr_sink ELSE cr
        /\ start_ob' =
              IF cmdr_fsm = "IDLE" /\ cmdr_fsm' = "WAIT"
              THEN [n |-> 1, valid |-> cmdr_sink.valid, done |-> CMDW_done,
                    wfsm |-> cmdw_fsm, wvalid |-> cmdw_sink.valid,
                    pend |-> FALSE, blocked |-> start_ob.pend]
              ELSE [start_ob EXCEPT
                      !.pend = @ \/ (cmdr_fsm = "IDLE" /\ cmdr_sink.valid /\ ~CMDW_done)]
        /\ UNCHANGED <<cmdw_in, cmdw_line, cmdw_acks, cmdw_trail, cmdr_ob, datarVars,
                       cardVars, benchVars, initVars, datawVars, ops, clkVars, init_ob,
                       dataw_ob, fifo_ob>>

\* the controller applies nothing in this cycle
CmdPath_Quiet == CmdPath_Step(NoByte, NoRequest)

\* the controller hands a byte to the Command Writer
CmdPath_Write ==
    /\ ~(cmdw_sink.valid /\ ~CMDW_sink_ready)
    /\ \E d \in PHY_Bytes, l \in BOOLEAN :
          CmdPath_Step([valid |-> TRUE, data |-> d, last |-> l], NoRequest)

\* the controller asks the Command Reader for a response
CmdPath_Read ==
    /\ ~(cmdr_sink.valid /\ ~CMDR_sink_ready(TRUE))
    /\ \E n \in PHY_Lengths, l \in BOOLEAN :
          CmdPath_Step(NoByte, [valid |-> TRUE, length |-> n, last |-> l])

InitCmdPath == PHY_Init /\ dut = "cmdpath"
NextCmdPath == CmdPath_Quiet \/ CmdPath_Write \/ CmdPath_Read
SpecCmdPath == InitCmdPath /\ [][NextCmdPath]_vars

(***************************************************************************)
(* The line clock generator on its own.                                    *)
(***************************************************************************)
BenchClocker ==
    /\ dut = "clocker"
    /\ UNCHANGED <<cmdwVars, cmdrVars, datarVars, cardVars, benchVars, initVars,
                   datawVars, ops, obVars, fifo_ob>>

CLK_Tick == CLK_Cycle(clk_storage) /\ BenchClocker
CLK_WriteDivider ==
    /\ \E d \in DividerSet \ {clk_storage} : CLK_Cycle(d)
    /\ BenchClocker

InitClocker == PHY_Init /\ dut = "clocker"
NextClocker == CLK_Tick \/ CLK_WriteDivider
SpecClocker == InitClocker /\ [][NextClocker]_vars

(***************************************************************************)
(* The initialization sequencer on its own: the trigger may come in any    *)
(* cycle.                                                                  *)
(***************************************************************************)
BenchInit(trigger) ==
    /\ dut = "init"
    /\ INIT_Observe(trigger)
    /\ UNCHANGED <<cmdwVars, cmdrVars, datarVars, cardVars, benchVars, datawVars, ops,
                   clkVars, start_ob, dataw_ob, fifo_ob>>

TickINIT_IDLE       == \E trigger \in BOOLEAN : INIT_IDLE(trigger) /\ BenchInit(trigger)
TickINIT_INITIALIZE == INIT_INITIALIZE /\ BenchInit(FALSE)

InitInit == PHY_Init /\ dut = "init"
NextInit == TickINIT_IDLE \/ TickINIT_INITIALIZE
SpecInit == InitInit /\ [][NextInit]_vars

(***************************************************************************)
(* The same readers and consumer, with the line recorded next to the       *)
(* result stream.                                                          *)
(***************************************************************************)
FifoCMDR ==
    \E ready \in Consumer(cmdr_ob), done \in BOOLEAN :
        LET sample == Card_Sample(card_cmd, 1)
        IN  /\ dut = "cmdr"
            /\ CMDR_Tick(ready, done)
            /\ CMDR_Reader(sample, ready)
            /\ CMDR_SinkEnv(ready)
            /\ CMDR_Observe(sample, ready, done)
            /\ fifo_ob' = Fifo_Next(fifo_ob, cmdr_fsm = "IDLE", cmdr_fsm \in {"WAIT", "CMD"},
                                    cmdr_reset, sample, CMDR_source, ready, 1, FALSE)
            /\ card_cmd' \in Card_Next(card_cmd, 1, CMDR_pads_out.clk)
            /\ UNCHANGED <<cmdwVars, datarVars, card_data, benchVars, initVars, datawVars,
                           ops, clkVars, obVars>>

FifoDATAR ==
    \E ready \in Consumer(datar_ob) :
        LET sample == Card_Sample(card_data, 4)
        IN  /\ dut = "datar"
            /\ DATAR_Tick(ready)
            /\ DATAR_Reader(sample, ready)
            /\ DATAR_SinkEnv(ready)
            /\ DATAR_Observe(sample, ready)
            /\ fifo_ob' = Fifo_Next(fifo_ob, datar_fsm = "IDLE", datar_fsm \in {"WAIT", "DATA"},
                                    datar_reset, sample, DATAR_source, ready, 4, TRUE)
            /\ card_data' \in Card_Next(card_data, 4, DATAR_pads_out.clk)
            /\ UNCHANGED <<cmdwVars, cmdrVars, card_cmd, benchVars, initVars, datawVars,
                           ops, clkVars, obVars>>

InitFifo == PHY_Init /\ dut \in {"cmdr", "datar"}
NextFifo == FifoCMDR \/ FifoDATAR
SpecFifo == InitFifo /\ [][NextFifo]_vars

(***************************************************************************)
(* Claims about the Command Writer (checked under SpecCMDW).               *)
(***************************************************************************)
\* the k-th bit of the MSB-first serialization of the bytes presented so far
C2_ExpectedBit(k) == Bit(cmdw_in[((k - 1) \div 8) + 1].data, 7 - ((k - 1) % 8))

\* C2: the values driven in the WRITE cycles, 8 per byte, are bit 7 down to
\* bit 0 of each input byte in input order (nothing skipped, repeated or
\* reordered), and every byte is consumed exactly once, after its 8 bits
\* and before any bit of the next byte.
C2_WriterSerializesMsbFirst ==
    /\ Len(cmdw_line) <= 8 * Len(cmdw_in)
    /\ \A k \in 1..Len(cmdw_line) : cmdw_line[k] = C2_ExpectedBit(k)
    /\ cmdw_acks = Len(cmdw_in) - BoolBit(cmdw_sink.valid)
    /\ 8 * cmdw_acks <= Len(cmdw_line)
    /\ Len(cmdw_line) <= 8 * (cmdw_acks + 1)
    /\ (cmdw_fsm = "IDLE" => Len(cmdw_line) = 8 * cmdw_acks)

\* two bytes went out, the first of them 42 = 0b00101010, and both were consumed
C2_Witness ==
    /\ Len(cmdw_in) = 2
    /\ cmdw_in[1].data = 42
    /\ Len(cmdw_line) = 16
    /\ cmdw_acks = 2

\* C3: after the 8th bit of a byte marked last the writer spends exactly 8
\* cycles in CLK8 before it consumes the byte and is back in IDLE; after a
\* byte not marked last it spends none.
C3_TrailerIsEightCycles ==
    /\ cmdw_trail <= 8
    /\ (cmdw_fsm = "IDLE" /\ ~cmdw_sink.valid /\ Len(cmdw_in) > 0) =>
          cmdw_trail = (IF cmdw_in[Len(cmdw_in)].last THEN 8 ELSE 0)

(***************************************************************************)
(* Claims about the readers (checked under SpecReaders).                   *)
(***************************************************************************)
\* C4: when the command line shows no start condition from the acceptance of
\* a request until the timeout counter reaches zero, the request is consumed
\* exactly once (at the timeout), no OK item is emitted, exactly one item
\* with status TIMEOUT and last set is emitted, and the FSM is back in IDLE
\* once that item is accepted.
C4_CmdTimeoutWithoutStart ==
    (dut = "cmdr" /\ cmdr_ob.active /\ ~cmdr_ob.zero) =>
        /\ cmdr_ob.ok = 0
        /\ cmdr_fsm # "CLK8"
        /\ cmdr_fsm \in {"WAIT", "CMD"} =>
              /\ cmdr_ob.acks = 0 /\ cmdr_ob.to = 0
              /\ ~CMDR_source.valid
        /\ cmdr_fsm = "TIMEOUT" =>
              /\ cmdr_ob.acks = 1 /\ cmdr_ob.to = 0 /\ cmdr_ob.hit
              /\ CMDR_source = [valid |-> TRUE, status |-> "TIMEOUT",
                                last |-> TRUE, data |-> 0]
        /\ cmdr_fsm = "IDLE" =>
              cmdr_ob.acks = 1 /\ cmdr_ob.to = 1 /\ cmdr_ob.hit

\* a request ran into the timeout with the line high throughout, its TIMEOUT
\* item was accepted and the FSM is back in IDLE
C4_Witness ==
    /\ dut = "cmdr" /\ cmdr_fsm = "IDLE"
    /\ cmdr_ob.active /\ ~cmdr_ob.zero /\ cmdr_ob.to = 1

\* C5: in the Command Reader and in the Data Reader an item presented with
\* status TIMEOUT has last set and is presented from the TIMEOUT state only.
C5_TimeoutItemIsLast ==
    /\ (CMDR_source.valid /\ CMDR_source.status = "TIMEOUT") =>
          (CMDR_source.last /\ cmdr_fsm = "TIMEOUT")
    /\ (DATAR_source.valid /\ DATAR_source.status = "TIMEOUT") =>
          (DATAR_source.last /\ datar_fsm = "TIMEOUT")
    /\ (cmdr_fsm = "TIMEOUT" => CMDR_source.valid /\ CMDR_source.status = "TIMEOUT")
    /\ (datar_fsm = "TIMEOUT" => DATAR_source.valid /\ DATAR_source.status = "TIMEOUT")

\* the Data Reader presents its TIMEOUT item
C5_Witness ==
    /\ dut = "datar" /\ datar_fsm = "TIMEOUT"
    /\ DATAR_source.valid /\ DATAR_source.status = "TIMEOUT"

\* C6: for every block length N of the request field, without timeout, the
\* Data Reader emits exactly N+8 OK items, last set on the (N+8)th only, and
\* consumes the request on that item.
C6_DataBlockLength ==
    (dut = "datar" /\ datar_ob.active /\ ~datar_ob.hit) =>
        /\ datar_ob.ok <= datar_ob.length + 8
        /\ datar_ob.lastpos \in {0, datar_ob.length + 8}
        /\ datar_ob.lastok = BoolBit(datar_ob.ok = datar_ob.length + 8)
        /\ datar_ob.acks = datar_ob.lastok
        /\ datar_ob.to = 0
        /\ (datar_fsm \in {"IDLE", "CLK40"} => datar_ob.ok = datar_ob.length + 8)

\* the count of OK items of the current request of the Command Reader, the
\* place of last and the consumption of the request, as C7 states them
C7_LengthHonoured ==
    /\ cmdr_ob.ok <= cmdr_ob.length
    /\ cmdr_ob.lastpos \in {0, cmdr_ob.length}
    /\ cmdr_ob.lastok = BoolBit(cmdr_ob.ok = cmdr_ob.length)
    /\ cmdr_ob.acks = cmdr_ob.lastok
    /\ cmdr_ob.to = 0
    /\ (cmdr_fsm \in {"IDLE", "CLK8"} => cmdr_ob.ok = cmdr_ob.length)

\* C7 as stated: for every length L of the 8-bit request field, without
\* timeout, the Command Reader emits exactly L OK items, last set on the L-th
\* only, and consumes the request when that item is accepted.
C7_CmdLengthAnyL ==
    (dut = "cmdr" /\ cmdr_ob.active /\ ~cmdr_ob.hit) => C7_LengthHonoured

\* C7 amended: the same for every length L from 1 to 255.
C7_CmdLengthFromOne ==
    (dut = "cmdr" /\ cmdr_ob.active /\ ~cmdr_ob.hit /\ cmdr_ob.length >= 1) =>
        C7_LengthHonoured

\* a request for 2 bytes was served with 2 OK items, without timeout
C7_Witness ==
    /\ dut = "cmdr" /\ cmdr_fsm = "IDLE"
    /\ cmdr_ob.active /\ ~cmdr_ob.hit
    /\ cmdr_ob.length = 2 /\ cmdr_ob.ok = 2 /\ cmdr_ob.lastpos = 2 /\ cmdr_ob.acks = 1

\* what C9 states of one reader: r its registers, ob the observation, src
\* the item its FSM presents, dw its width
C9_StartGated(r, ob, src, dw) ==
    /\ (src.valid /\ src.status = "OK") => ob.armed
    /\ ob.armed =>
          /\ r.bvalid => ob.since >= 1
          /\ (r.bvalid /\ ~ob.popped) =>
                (Len(ob.first) = 8 \div dw /\ r.bdata = Pack(ob.first, dw))
    /\ ob.fwd # "other"

\* C9: after its rearm for a request the Bit Stream Reader presents no valid
\* byte before a sample was all-zero, its first byte is packed from the
\* samples taken from that start sample on (after it with skip_start_bit),
\* and the first OK item the Command Reader or Data Reader forwards for the
\* request is that byte: nothing sampled before the rearm is forwarded.
C9_StartGating ==
    /\ dut = "cmdr" => C9_StartGated(cmdr_r, cmdr_ob, CMDR_source, 1)
    /\ dut = "datar" => C9_StartGated(datar_r, datar_ob, DATAR_source, 4)

\* the Data Reader forwarded the first byte after the start nibble, 0xA5
C9_Witness ==
    /\ dut = "datar" /\ datar_ob.fwd = "first" /\ datar_ob.ok = 1
    /\ datar_fsm = "DATA" /\ datar_ob.armed

\* C10 as stated: no valid byte earlier than width*8 cycles after the start
\* detection, for width 1 (Command Reader) and width 4 (Data Reader).
C10_LatencyWidthTimes8 ==
    /\ (dut = "cmdr" /\ cmdr_ob.armed /\ cmdr_r.bvalid) => cmdr_ob.since >= 1 * 8
    /\ (dut = "datar" /\ datar_ob.armed /\ datar_r.bvalid) => datar_ob.since >= 4 * 8

\* C10 amended: no valid byte earlier than 8/width cycles after the start
\* detection (8 cycles for width 1, 2 cycles for width 4).
C10_LatencyEightOverWidth ==
    /\ (dut = "cmdr" /\ cmdr_ob.armed /\ cmdr_r.bvalid) => cmdr_ob.since >= 8 \div 1
    /\ (dut = "datar" /\ datar_ob.armed /\ datar_r.bvalid) => datar_ob.since >= 8 \div 4

\* the width-4 reader presents its first byte 4 cycles after the start nibble
C10_Witness ==
    /\ dut = "datar" /\ datar_ob.armed /\ datar_r.bvalid /\ ~datar_ob.popped
    /\ datar_ob.since = 4

(***************************************************************************)
(* Claims about the loopback (checked under SpecLoop).                     *)
(***************************************************************************)
\* C8: with the writer's command line looped back into the reader, for a
\* multi-byte payload whose first bit is 0, the bytes the reader passes on
\* with status OK are the bytes given to the writer, in order (at any time a
\* prefix of them), also across the writer's return to IDLE between bytes.
C8_LoopbackRoundTrip ==
    dut = "loop" =>
        /\ Len(loop_out) <= Len(cmdw_in)
        /\ \A k \in 1..Len(loop_out) : loop_out[k] = cmdw_in[k].data

(***************************************************************************)
(* Claims about the assembled PHY (checked under SpecPHY).                 *)
(***************************************************************************)
\* the modules asserting an output-enable in this cycle
C1_CmdDrivers == {m \in DOMAIN PHY_cmd_oe_of : PHY_cmd_oe_of[m] = 1}
C1_DataDrivers == {m \in DOMAIN PHY_data_oe_of : PHY_data_oe_of[m] = 1}

\* C1: in every reachable state of the assembled PHY, under any interleaving
\* of controller activity, at most one FSM asserts output-enable on the
\* command line and at most one on the data lines; the Command Writer is not
\* in WRITE or CLK8 while the Command Reader is in CLK8, and the Init
\* sequencer does not drive while another FSM drives.
C1_SingleDriver ==
    dut = "phy" =>
        /\ Cardinality(C1_CmdDrivers) <= 1
        /\ Cardinality(C1_DataDrivers) <= 1
        /\ ~(cmdw_fsm \in {"WRITE", "CLK8"} /\ cmdr_fsm = "CLK8")
        /\ (init_fsm = "INITIALIZE" =>
               C1_CmdDrivers = {"init"} /\ C1_DataDrivers = {"init"})

\* what C11 states of one reader: fsm its state, ob the observation of the
\* current request, st its trailer state, n the trailer's length
C11_Trailer(fsm, ob, st, n) ==
    /\ fsm = st => (ob.lastok >= 1 /\ ob.last /\ ob.trail < n)
    /\ (ob.lastok >= 1 /\ ob.last) => (fsm = st \/ (fsm = "IDLE" /\ ob.trail = n))
    /\ (ob.lastok >= 1 /\ ~ob.last) => (fsm = "IDLE" /\ ob.trail = 0)
    /\ ob.lastok = 0 => (fsm # st /\ ob.trail = 0)

\* C11: the Command Reader is in CLK8 if and only if the last byte of a
\* response was accepted for a request whose last flag is set, and it stays
\* there exactly 8 cycles; the Data Reader likewise in CLK40 for exactly 40
\* cycles; with the last flag clear both are back in IDLE without a trailer
\* cycle.
C11_ReaderTrailers ==
    /\ (dut = "cmdr" /\ cmdr_ob.active) => C11_Trailer(cmdr_fsm, cmdr_ob, "CLK8", 8)
    /\ (dut = "datar" /\ datar_ob.active) => C11_Trailer(datar_fsm, datar_ob, "CLK40", 40)

\* what C16 states of one reader
C16_OneTerminal(fsm, ob) ==
    /\ ob.lastok + ob.to <= 1
    /\ ob.acks <= 1
    /\ (fsm = "IDLE" /\ ob.acks = 1) => ob.lastok + ob.to = 1

\* C16: for every request the Command Reader or the Data Reader consumes,
\* the result stream carries exactly one item with last set, the final OK
\* byte or the TIMEOUT item, never both, also when the timeout counter
\* reaches zero in the cycle in which the final byte is accepted.
C16_OneTerminalItem ==
    /\ (dut = "cmdr" /\ cmdr_ob.active) => C16_OneTerminal(cmdr_fsm, cmdr_ob)
    /\ (dut = "datar" /\ datar_ob.active) => C16_OneTerminal(datar_fsm, datar_ob)

(***************************************************************************)
(* Claims about the line clock generator (checked under SpecClocker).      *)
(***************************************************************************)
C12_IsPowerOfTwo(d) == \E i \in 0..7 : d = Pow2(i)

\* C12 as stated: under a divider d that is a power of two, one line-clock
\* period lasts 2*d control-clock cycles; under any other d the line clock is
\* the least-significant bit of the counter (period 2).
C12_PeriodTwiceDivider ==
    clk_period # 0 =>
        clk_period = IF C12_IsPowerOfTwo(clk_storage) THEN 2 * clk_storage ELSE 2

\* C12 amended: under a divider d that is a power of two from 2 to 128 one
\* line-clock period lasts d control-clock cycles (d = 128 at 50 MHz gives
\* 390625 Hz); under 0, 1 or a value that is not a power of two the line
\* clock is the least-significant bit of the free-running 8-bit counter.
C12_PeriodIsDivider ==
    /\ clk_period # 0 =>
           clk_period = IF C12_IsPowerOfTwo(clk_storage) /\ clk_storage # 1
                        THEN clk_storage ELSE 2
    /\ (~C12_IsPowerOfTwo(clk_storage) \/ clk_storage = 1) =>
           CLK_clk(clk_counter, clk_storage) = clk_counter % 2
    /\ (clk_storage = 128 /\ clk_period # 0) => 50000000 \div clk_period = 390625

\* C12: a full period has been measured under the default divider 128
C12_Witness ==
    /\ dut = "clocker"
    /\ clk_storage = 128
    /\ clk_period = 128

(***************************************************************************)
(* Claims about the initialization sequencer (checked under SpecInit).     *)
(***************************************************************************)
C13_Sequence(idleCount) ==
    /\ init_fsm = "INITIALIZE" =>
          /\ INIT_pads_out = [clk |-> 1, cmd_oe |-> 1, cmd_o |-> 1,
                              data_oe |-> 1, data_o |-> 15]
          /\ init_ob.high
          /\ init_ob.run < 80
          /\ init_count = init_ob.run
          /\ init_ob.trig = init_ob.seqs + 1 \/ init_ob.trig = 2
    /\ init_fsm = "IDLE" =>
          /\ INIT_pads_out = [clk |-> 0, cmd_oe |-> 0, cmd_o |-> 0,
                              data_oe |-> 0, data_o |-> 0]
          /\ init_ob.high
          /\ init_ob.run = IF init_ob.seqs = 0 THEN 0 ELSE 80
          /\ init_ob.trig = init_ob.seqs
          /\ init_count = idleCount

\* C13 as stated: each trigger received in IDLE makes the sequencer drive
\* cmd and the four data lines high, with output-enable and clock asserted,
\* for exactly 80 consecutive cycles, after which it is in IDLE with its
\* counter at 0 and drives nothing.
C13_CounterBackAtZero == dut = "init" => C13_Sequence(0)

\* C13 amended: the same 80 driven cycles, counted from 0 in every sequence;
\* in the first IDLE cycle after a sequence the counter holds 80, and IDLE
\* clears it, so that it is 0 in every later IDLE cycle and when the next
\* sequence starts.
C13_InitEightyCycles ==
    dut = "init" => C13_Sequence(IF init_ob.fresh THEN 80 ELSE 0)

\* C13: a second sequence, triggered in the first IDLE cycle after the
\* first, has completed
C13_Witness ==
    /\ dut = "init"
    /\ init_fsm = "IDLE"
    /\ init_ob.seqs = 2
    /\ init_ob.run = 80
    /\ init_ob.fresh

(***************************************************************************)
(* Claims about the timeout of the readers (checked under SpecStall).      *)
(***************************************************************************)
C14_Bounded(fsm, ob, timeout, bytestate) ==
    /\ fsm \in {"WAIT", bytestate} =>
          /\ ob.busyc <= TimeoutReload
          /\ timeout = TimeoutReload - ob.busyc
    /\ ob.busyc <= TimeoutReload + 1
    /\ ob.busyc = TimeoutReload + 1 => (fsm = "TIMEOUT" \/ (fsm = "IDLE" /\ ob.hit))

\* C14: a request that has left IDLE has spent at most TimeoutReload + 1
\* cycles in WAIT and CMD (DATA) together; the timeout counter is
\* TimeoutReload in its first WAIT cycle and falls by one per cycle; after
\* TimeoutReload + 1 such cycles the reader is in TIMEOUT, whatever the card
\* and the consumer did.
C14_BoundedWaiting ==
    /\ (dut = "cmdr" /\ cmdr_ob.active) =>
           C14_Bounded(cmdr_fsm, cmdr_ob, cmdr_timeout, "CMD")
    /\ (dut = "datar" /\ datar_ob.active) =>
           C14_Bounded(datar_fsm, datar_ob, datar_timeout, "DATA")

\* C14: the reader is in TIMEOUT after TimeoutReload + 1 cycles although a
\* byte was ready: the consumer refused it more than MaxStall times and
\* accepted nothing
C14_Witness ==
    /\ dut = "datar"
    /\ datar_fsm = "TIMEOUT"
    /\ datar_ob.busyc = TimeoutReload + 1
    /\ datar_ob.ok = 0
    /\ datar_ob.stall > MaxStall

(***************************************************************************)
(* Claims about the command path (checked under SpecCmdPath).              *)
(***************************************************************************)
\* C15: whenever the Command Reader has gone from IDLE to WAIT, it did so in
\* a cycle in which a request was pending and the Command Writer reported
\* done, that is, the writer was in IDLE with no input byte pending; it
\* never started while the writer was in WRITE or CLK8.
C15_StartOnlyWhenWriterDone ==
    (dut = "cmdpath" /\ start_ob.n = 1) =>
        /\ start_ob.valid
        /\ start_ob.done
        /\ start_ob.wfsm = "IDLE"
        /\ ~start_ob.wvalid
        /\ (cmdr_fsm = "WAIT" /\ cmdr_reset) => cmdw_fsm = "IDLE"

\* C15: the reader has started on a request that had been waiting while the
\* writer was busy
C15_Witness ==
    /\ dut = "cmdpath"
    /\ start_ob.n = 1
    /\ start_ob.blocked
    /\ cmdr_fsm = "WAIT"

(***************************************************************************)
(* Claims about the Data Writer and its CRC decoder (checked under         *)
(* SpecDATAW).                                                             *)
(***************************************************************************)
\* the nibbles of the bytes, high nibble first
RECURSIVE C17_Nibbles(_)
C17_Nibbles(bytes) ==
    IF bytes = <<>> THEN <<>>
    ELSE <<Head(bytes).data \div 16, Head(bytes).data % 16>> \o C17_Nibbles(Tail(bytes))

\* C17: at every point of a transfer the values driven on the data lines
\* with output-enable are the start pattern 0, then the high and the low
\* nibble of each byte in order, then 15 once after the byte marked last;
\* the started flag is set from the first byte's low nibble until STOP
\* inclusive; every non-final byte has been acknowledged once, in DATA.
C17_Framing ==
    (dut = "dataw" /\ dataw_ob.line # <<>>) =>
        LET ob    == dataw_ob
            n     == Len(ob.bytes)
            final == n > 0 /\ ob.bytes[n].last
            body  == <<0>> \o C17_Nibbles(ob.bytes)
        IN  /\ \A k \in 1..(n - 1) : ~ob.bytes[k].last
            /\ dataw_fsm = "START" => (ob.line = <<0>> /\ n = 0)
            /\ dataw_fsm = "DATA" =>
                   (ob.line = body \o <<dataw_sink.data \div 16>> /\ ~final)
            /\ (dataw_fsm = "IDLE" /\ ~ob.done) => (ob.line = body /\ n > 0 /\ ~final)
            /\ dataw_fsm = "STOP" => (ob.line = body /\ final)
            /\ (dataw_fsm = "RESPONSE" \/ ob.done) => (ob.line = body \o <<15>> /\ final)
            /\ dataw_wrstarted <=>
                   (dataw_fsm \in {"DATA", "STOP"} \/ (dataw_fsm = "IDLE" /\ ~ob.done))
            /\ ~ob.badack
            /\ ob.acks = n - BoolBit(final)

\* C17: a transfer of MaxBytes bytes beginning with 0x2A has been driven
\* to its stop pattern
C17_Witness ==
    /\ dut = "dataw"
    /\ dataw_fsm = "RESPONSE"
    /\ Len(dataw_ob.bytes) = MaxBytes
    /\ dataw_ob.bytes[1].data = 42
    /\ dataw_ob.acks = MaxBytes - 1

\* C18: in RESPONSE the cycle counter counts the first 16 cycles and then
\* stays at 16; the writer is still in RESPONSE as long as no cycle after
\* those 16 has read data line 0 as 1, and the final byte is not consumed
\* before; the first such cycle consumes the final byte, once, and leaves
\* the writer in IDLE with its counter at 0; no byte is acknowledged
\* anywhere else in RESPONSE.
C18_BusyWait ==
    (dut = "dataw" /\ dataw_ob.line # <<>>) =>
        LET ob == dataw_ob
        IN  /\ dataw_fsm = "RESPONSE" =>
                  /\ dataw_count = IF ob.resp < 16 THEN ob.resp ELSE 16
                  /\ ob.rel = 0
                  /\ ob.lastacks = 0
                  /\ ~ob.done
            /\ (dataw_fsm # "RESPONSE" /\ ~ob.done) =>
                  (ob.resp = 0 /\ ob.rel = 0 /\ ob.lastacks = 0 /\ dataw_count = 0)
            /\ ob.done =>
                  /\ dataw_fsm = "IDLE"
                  /\ dataw_count = 0
                  /\ ob.resp >= 17
                  /\ ob.rel = 1
                  /\ ob.lastacks = 1
            /\ ~ob.badack

\* C18: the writer has left RESPONSE after the card held data line 0 low
\* beyond the 16 cycles
C18_Witness ==
    /\ dut = "dataw"
    /\ dataw_ob.done
    /\ dataw_ob.line # <<>>
    /\ dataw_ob.resp > 17 + MaxCardDelay

\* C19: the start pulses and the decision cycles of the CRC decoder pair
\* up: in IDLE every start pulse so far has had its one decision, in
\* WAIT-CHECK exactly one start pulse is still without its decision; no
\* start pulse is ignored and no decision comes without one.
C19_PulseAccounting ==
    dut = "dataw" => dataw_ob.pending = IF crc_fsm = "WAIT-CHECK" THEN 1 ELSE 0

\* C20: valid and error are never asserted together, and a decision made
\* since the last start pulse was made on a CRC status the card drove after
\* that pulse: error if and only if that status is 0b101, valid otherwise.
C20_Decoding ==
    dut = "dataw" =>
        /\ ~(CRCR_valid /\ CRCR_error)
        /\ dataw_ob.dec # "none" =>
              /\ dataw_ob.dtok # -1
              /\ dataw_ob.dec = "error" <=> dataw_ob.dtok = 5

(***************************************************************************)
(* Claims about the readers under backpressure (checked under SpecFifo).   *)
(***************************************************************************)
\* C21: for the Command Reader and the Data Reader, the OK bytes passed to
\* the result stream are the bytes that went over the line after the start
\* condition, in order, none dropped, duplicated or bit-shifted, however the
\* result consumer delays accepting them: every OK item is the oldest byte
\* of the line that was not passed on yet.
C21_NoLossUnderBackpressure == ~fifo_ob.bad

=============================================================================
